---- MODULE Spec2Model ----
(***************************************************************************)
(* A model of wsvc: the repository lock, the packet and file framing of    *)
(* the sync transport, and the four-round sync session between a client    *)
(* (Initiator, src/cli/transport.rs) and a server (Responder,              *)
(* src/server/mod.rs).                                                     *)
(*                                                                         *)
(* Byte strings are sequences of integers 0..255.  A channel message is a  *)
(* record [bin, b]: bin says whether it is a Binary websocket message, b   *)
(* holds its bytes.                                                        *)
(***************************************************************************)
EXTENDS Integers, Sequences, FiniteSets, TLC

VARIABLES
    chan,       \* chan[s]: the messages in flight towards side s, oldest first
    open,       \* whether the websocket connection is still up
    pc,         \* pc[s]: the position of side s in its session
    rx,         \* rx[s]: the state of the recv_data / recv_file call side s is in
    temp,       \* temp[s]: the files of temp/objects/, file name -> bytes
    lockFile,   \* lockFile[s]: the content of the LOCK file of side s's repository
    fin,        \* the inputs and results of the framing harness
    objects,    \* objects[s]: the files of objects/, file name -> stored bytes
    trees,      \* trees[s]: the fingerprints of the files of trees/
    records,    \* records[s]: the fingerprints of the files of records/
    head,       \* head[s]: the content of HEAD, None when empty
    loc,        \* loc[s]: the local variables of side s's session
    kind,       \* kind[s]: "wsvc" when side s runs this program
    hist        \* hist[s]: what the session of side s did so far (history)

chanVars == <<chan, open>>
storeVars == <<objects, trees, records, head>>
syncVars == <<objects, trees, records, head, loc, kind>>
vars == <<chan, open, pc, rx, temp, lockFile, fin, objects, trees, records, head,
          loc, kind, hist>>

Sides == {"I", "R"}
Peer(s) == IF s = "I" THEN "R" ELSE "I"

None == "none"

---------------------------------------------------------------------------
(* Bounds of the model.                                                    *)

\* Bytes per data message.  The source sends 16384 bytes per message; the
\* model scales the chunk down so that payloads of a few bytes already take
\* several messages.
WireChunk == 2

\* Longest payload or file the framing harness sends.
MaxLen == 3

---------------------------------------------------------------------------
(* Bytes.                                                                  *)

Bin(b) == [bin |-> TRUE, b |-> b]
Text(b) == [bin |-> FALSE, b |-> b]

\* (size >> 24) as u8, (size >> 16) as u8, (size >> 8) as u8, size as u8
U32BE(n) ==
    << (n \div 16777216) % 256, (n \div 65536) % 256, (n \div 256) % 256, n % 256 >>

\* (file_name_size >> 8) as u8, file_name_size as u8
U16BE(n) == << (n \div 256) % 256, n % 256 >>

\* the 32-bit length a receiver reads from bytes 2..5 of a 6-byte header
ReadU32(b) == b[3] * 16777216 + b[4] * 65536 + b[5] * 256 + b[6]

\* the 16-bit length a receiver reads from bytes 2..3 of a 4-byte header
ReadU16(b) == b[3] * 256 + b[4]

Min(a, b) == IF a < b THEN a ELSE b

\* data[offset..end] for offset = 0, chunk, 2*chunk, ... while offset < len
RECURSIVE ChunksFrom(_, _, _)
ChunksFrom(data, offset, chunk) ==
    IF offset < Len(data)
    THEN LET end == Min(offset + chunk, Len(data))
         IN  <<Bin(SubSeq(data, offset + 1, end))>> \o ChunksFrom(data, end, chunk)
    ELSE <<>>

---------------------------------------------------------------------------
(* Packet framing: send_data.                                              *)

PacketMagic == <<51, 7>>        \* 0x33 0x07
NameMagic == <<9, 40>>          \* 0x09 0x28
FileMagic == <<7, 21>>          \* 0x07 0x15

\* The messages one send_data(data) call puts on the channel: the 6-byte
\* header, then data in chunks.
SendDataMsgs(data) ==
    <<Bin(PacketMagic \o U32BE(Len(data)))>> \o ChunksFrom(data, 0, WireChunk)

\* The messages one send_file(file_name, file) call puts on the channel:
\* the file-name header, the file header, then the file in chunks of one
\* read each.  The call sends no message holding the file name itself.
SendFileMsgs(name, file) ==
    << Bin(NameMagic \o U16BE(Len(name))),
       Bin(FileMagic \o U32BE(Len(file))) >> \o ChunksFrom(file, 0, WireChunk)

\* send_file begins with: if file_name_size > 16384 { return Err(..) }
MaxNameLen == 16384

---------------------------------------------------------------------------
(* Packet framing: recv_data, one channel message per step.                *)

\* rx[s].phase: "idle" (in no receive call), "pkt_hdr" / "pkt_body" (in
\* recv_data, before / after the header message), "pkt_done" (recv_data
\* returned rx[s].data), "pkt_spin" (recv_data loops for ever), "f_namehdr",
\* "f_name", "f_filehdr", "f_data" (in recv_file, waiting for that
\* message), "f_done" (recv_file returned).
RxIdle == [phase |-> "idle", size |-> 0, data |-> <<>>, name |-> <<>>]
RxStart(phase) == [RxIdle EXCEPT !.phase = phase]

\* ws.next() yields a message when one is queued, None once the
\* connection is down and the queue is empty, and waits otherwise.
CanRecv(s) == chan[s] # <<>> \/ ~open

\* The first ws.next() of recv_data.  got: the call returned a message m.
\* end: "go" (still in the call or returned Ok), "failed" (returned Err),
\* "panicked" (a slice index out of range).
DataHeaderStep(r, got, m) ==
    IF ~got \/ ~m.bin
    THEN [rx |-> RxIdle, end |-> "failed"]
    ELSE IF Len(m.b) < 6
    THEN [rx |-> RxIdle, end |-> "panicked"]
    ELSE IF SubSeq(m.b, 1, 2) # PacketMagic
    THEN [rx |-> RxIdle, end |-> "failed"]
    ELSE LET size == ReadU32(m.b)
             data == SubSeq(m.b, 7, Len(m.b))
         IN  [rx |-> [phase |-> IF Len(data) < size THEN "pkt_body" ELSE "pkt_done",
                      size |-> size, data |-> data, name |-> <<>>],
              end |-> "go"]

\* A loop that goes round once more when offset = size.
DataBodyStepEager(r, got, m) ==
    IF ~got
    THEN [rx |-> [r EXCEPT !.phase = "pkt_spin"], end |-> "go"]
    ELSE IF ~m.bin
    THEN [rx |-> r, end |-> "go"]
    ELSE LET data == r.data \o m.b
         IN  [rx |-> [r EXCEPT !.data = data,
                               !.phase = IF Len(data) <= r.size THEN "pkt_body"
                                         ELSE "pkt_done"],
              end |-> "go"]

\* One turn of `while offset < size`: anything but a Binary message is
\* ignored and the loop goes round again; with the connection down every
\* later ws.next() is None as well, so the loop never ends.
DataBodyStep(r, got, m) ==
    IF ~got
    THEN [rx |-> [r EXCEPT !.phase = "pkt_spin"], end |-> "go"]
    ELSE IF ~m.bin
    THEN [rx |-> r, end |-> "go"]
    ELSE LET data == r.data \o m.b
         IN  [rx |-> [r EXCEPT !.data = data,
                               !.phase = IF Len(data) < r.size THEN "pkt_body"
                                         ELSE "pkt_done"],
              end |-> "go"]

---------------------------------------------------------------------------
(* File framing: recv_file, one channel message per step.                  *)

\* String::from_utf8 accepts the bytes.  The only byte above 0x7F in the
\* model's byte strings is the 0xDA of a chunk magic, which is never
\* followed by a UTF-8 continuation byte, so a string is valid exactly
\* when all its bytes are ASCII.
Utf8Ok(b) == \A i \in 1..Len(b) : b[i] < 128

\* File::create(storage_dir.join(file_name)) succeeds: the name is not
\* empty and holds no NUL and no path separator.
CreateOk(name) == Len(name) > 0 /\ \A i \in 1..Len(name) : name[i] \notin {0, 47}

\* The step of recv_file that takes the next message.  create: the step
\* created (truncated) the file rx.name; write: it wrote rx.data so far.
FileStep(r, got, m) ==
    LET fail == [rx |-> RxIdle, end |-> "failed", create |-> FALSE]
        panic == [rx |-> RxIdle, end |-> "panicked", create |-> FALSE]
    IN
    IF ~got \/ ~m.bin THEN fail
    ELSE IF r.phase = "f_namehdr" THEN
        IF Len(m.b) < 4 THEN panic
        ELSE IF SubSeq(m.b, 1, 2) # NameMagic THEN fail
        ELSE [rx |-> [r EXCEPT !.phase = "f_name", !.size = ReadU16(m.b)],
              end |-> "go", create |-> FALSE]
    ELSE IF r.phase = "f_name" THEN
        IF Len(m.b) < r.size THEN panic
        ELSE IF ~Utf8Ok(SubSeq(m.b, 1, r.size)) THEN fail
        ELSE [rx |-> [r EXCEPT !.phase = "f_filehdr", !.name = SubSeq(m.b, 1, r.size)],
              end |-> "go", create |-> FALSE]
    ELSE IF r.phase = "f_filehdr" THEN
        IF Len(m.b) < 6 THEN panic
        ELSE IF SubSeq(m.b, 1, 2) # FileMagic THEN fail
        ELSE IF ~CreateOk(r.name) THEN fail
        ELSE LET size == ReadU32(m.b)
             IN  [rx |-> [r EXCEPT !.phase = IF size = 0 THEN "f_done" ELSE "f_data",
                                   !.size = size, !.data = <<>>],
                  end |-> "go", create |-> TRUE]
    ELSE \* "f_data": while offset != size
        LET data == r.data \o m.b
        IN  [rx |-> [r EXCEPT !.data = data,
                              !.phase = IF Len(data) = r.size THEN "f_done" ELSE "f_data"],
             end |-> "go", create |-> TRUE]

\* blake3 fingerprints are 32 bytes, 64 characters in hexadecimal
HashLen == 32
HexLen == 2 * HashLen

\* a file name of HexLen characters, all the character c
HexName(c) == [i \in 1..HexLen |-> c]

---------------------------------------------------------------------------
(* The objects of the model.  A fingerprint is modelled by a name: "b1" is *)
(* the fingerprint of the bytes BlobContent("b1"), "t1" that of the tree   *)
(* TreeOf("t1"), "r1" that of the record RecordOf("r1").  Distinct names   *)
(* are distinct fingerprints (blake3 is taken to be collision free).       *)

BlobList == <<"b1", "b2", "b3", "b4", "b5">>
TreeList == <<"t1", "t2", "t3", "t4">>
RecordList == <<"r1", "r2", "r3", "r4">>

Range(q) == {q[i] : i \in 1..Len(q)}
BlobIds == Range(BlobList)
TreeIds == Range(TreeList)
RecordIds == Range(RecordList)

\* the position of x in the list q
Code(q, x) == CHOOSE i \in 1..Len(q) : q[i] = x

\* b3 is the empty file; b4 and b5 are longer than one stored chunk
BlobContent(b) ==
    CASE b = "b1" -> <<1>>
      [] b = "b2" -> <<2>>
      [] b = "b3" -> <<>>
      [] b = "b4" -> <<1, 2, 1>>
      [] b = "b5" -> <<2, 1>>

Entry(name, hash) == [name |-> name, hash |-> hash]

\* model::Tree without its hash: name, trees (fingerprints of the child
\* trees), blobs ({name, hash} of the files).  File and directory names
\* are single characters.
TreeOf(t) ==
    CASE t = "t1" -> [name |-> 46, trees |-> <<>>, blobs |-> <<Entry(102, "b1")>>]
      [] t = "t2" -> [name |-> 46, trees |-> <<"t3">>, blobs |-> <<Entry(103, "b1")>>]
      [] t = "t3" -> [name |-> 100, trees |-> <<>>, blobs |-> <<Entry(104, "b2")>>]
      [] t = "t4" -> [name |-> 46, trees |-> <<>>,
                      blobs |-> <<Entry(102, "b2"), Entry(103, "b2")>>]

\* model::Record without its hash, message and author.
RecordOf(r) ==
    CASE r = "r1" -> [root |-> "t1", date |-> 1]
      [] r = "r2" -> [root |-> "t2", date |-> 2]
      [] r = "r3" -> [root |-> "t4", date |-> 2]
      [] r = "r4" -> [root |-> "t3", date |-> 3]

\* hash.to_hex() / hash.to_string(): the 64-character name of the file of
\* a blob
FpHex(b) == HexName(48 + Code(BlobList, b))

---------------------------------------------------------------------------
(* The stored form of a blob: store_blob_file_impl.                        *)

\* Bytes per stored chunk.  The source reads 16384 bytes per chunk; the
\* model scales the chunk down.
StoreChunk == 2

\* compress_to_vec(chunk, 8), modelled as one stored deflate block: a
\* block header, the length, the literal bytes
Deflate(chunk) == <<1, Len(chunk)>> \o chunk

\* for each chunk read: 0x78 0xda, len / 256, len % 256, the compressed chunk
RECURSIVE StoredFrom(_, _)
StoredFrom(content, offset) ==
    IF offset < Len(content)
    THEN LET end == Min(offset + StoreChunk, Len(content))
             z == Deflate(SubSeq(content, offset + 1, end))
         IN  <<120, 218, Len(z) \div 256, Len(z) % 256>> \o z \o StoredFrom(content, end)
    ELSE <<>>

StoredForm(content) == StoredFrom(content, 0)

\* decompress_to_vec(chunk): the literal bytes of a well-formed block
Inflate(z) ==
    IF Len(z) >= 2 /\ z[1] = 1 /\ z[2] = Len(z) - 2
    THEN [ok |-> TRUE, data |-> SubSeq(z, 3, Len(z))]
    ELSE [ok |-> FALSE, data |-> <<>>]

\* a reader that stops after the first chunk
ReadFirstChunk(stored, offset) ==
    IF Len(stored) < 4 THEN [ok |-> TRUE, data |-> <<>>]
    ELSE Inflate(SubSeq(stored, 5, 4 + stored[3] * 256 + stored[4]))

\* read_blob: until the end of the file, read a 4-byte header, check its
\* magic 0x78 0xda, read `size` bytes, decompress them and append
RECURSIVE ReadFrom(_, _)
ReadFrom(stored, offset) ==
    IF offset >= Len(stored) THEN [ok |-> TRUE, data |-> <<>>]
    ELSE IF offset + 4 > Len(stored) THEN [ok |-> FALSE, data |-> <<>>]
    ELSE IF stored[offset + 1] # 120 \/ stored[offset + 2] # 218
    THEN [ok |-> FALSE, data |-> <<>>]
    ELSE LET size == stored[offset + 3] * 256 + stored[offset + 4]
         IN  IF offset + 4 + size > Len(stored) THEN [ok |-> FALSE, data |-> <<>>]
             ELSE LET z == Inflate(SubSeq(stored, offset + 5, offset + 4 + size))
                      rest == ReadFrom(stored, offset + 4 + size)
                  IN  [ok |-> z.ok /\ rest.ok, data |-> z.data \o rest.data]

ReadStored(stored) == ReadFrom(stored, 0)

\* blake3::hash(content).to_hex(): the name the store gives to content
Fingerprint(content) ==
    IF \E b \in BlobIds : BlobContent(b) = content
    THEN FpHex(CHOOSE b \in BlobIds : BlobContent(b) = content)
    ELSE HexName(48)

---------------------------------------------------------------------------
(* Reading the store.                                                      *)

\* a function as a set of files
Files(f) == DOMAIN f
NoFiles == << >>

\* repo.blob_exists(hash), repo.tree_exists(hash): the file is there
BlobExists(s, b) == FpHex(b) \in Files(objects[s])
TreeExists(s, t) == t \in trees[s]

\* a contains that finds nothing
NeverContains(q, x) == FALSE

\* a.contains(x) on records, trees and blobs compares fingerprints
Contains(q, x) == \E i \in 1..Len(q) : q[i] = x
ContainsBlob(q, e) == \E i \in 1..Len(q) : q[i].hash = e.hash

\* the items of the list q that are in the set S, in the order of q
Keep(q, S) == SelectSeq(q, LAMBDA x : x \in S)

\* get_records(): every record of records/, in the order read_dir lists
\* them (taken to be the order of RecordList)
GetRecords(s) == Keep(RecordList, records[s])

RECURSIVE Flatten(_)
Flatten(qq) == IF qq = <<>> THEN <<>> ELSE Head(qq) \o Flatten(Tail(qq))

\* get_trees_of_record: queue = vec![root]; while let Some(t) = queue.pop()
\* { read_tree(t); result.push(t); queue.push(each child) }.  ok is FALSE
\* when a read_tree fails because the file is missing.
RECURSIVE WalkTrees(_, _, _)
WalkTrees(s, queue, result) ==
    IF queue = <<>> THEN [ok |-> TRUE, list |-> result]
    ELSE LET t == queue[Len(queue)]
             rest == SubSeq(queue, 1, Len(queue) - 1)
         IN  IF ~TreeExists(s, t) THEN [ok |-> FALSE, list |-> result]
             ELSE WalkTrees(s, rest \o TreeOf(t).trees, Append(result, t))

TreesOfRecord(s, r) ==
    IF r \in records[s] THEN WalkTrees(s, <<RecordOf(r).root>>, <<>>)
    ELSE [ok |-> FALSE, list |-> <<>>]

\* the trees of every record of the list, one after the other
RECURSIVE TreesOfRecords(_, _)
TreesOfRecords(s, rs) ==
    IF rs = <<>> THEN [ok |-> TRUE, list |-> <<>>]
    ELSE LET first == TreesOfRecord(s, Head(rs))
             others == TreesOfRecords(s, Tail(rs))
         IN  [ok |-> first.ok /\ others.ok, list |-> first.list \o others.list]

\* get_blobs_of_tree: the {name, hash} entries the tree lists
BlobsOfTree(s, t) ==
    IF TreeExists(s, t) THEN [ok |-> TRUE, list |-> TreeOf(t).blobs]
    ELSE [ok |-> FALSE, list |-> <<>>]

RECURSIVE BlobsOfTrees(_, _)
BlobsOfTrees(s, ts) ==
    IF ts = <<>> THEN [ok |-> TRUE, list |-> <<>>]
    ELSE LET first == BlobsOfTree(s, Head(ts))
             others == BlobsOfTrees(s, Tail(ts))
         IN  [ok |-> first.ok /\ others.ok, list |-> first.list \o others.list]

---------------------------------------------------------------------------
(* The packets of rounds 1 to 3: serde_json of a list, byte for byte in    *)
(* the model's own small format.  A list is '[' items ']'; a record or a   *)
(* tree is the byte of its code, a blob entry is its name byte and the     *)
(* code of its hash; an item of a diff list is followed by its state byte. *)

KindList(k) == IF k = "rec" THEN RecordList ELSE IF k = "tree" THEN TreeList ELSE BlobList
Width(k) == IF k = "blob" THEN 2 ELSE 1

EncItem(k, x) ==
    IF k = "blob" THEN <<x.name, Code(BlobList, x.hash)>> ELSE <<Code(KindList(k), x)>>

ItemOk(k, b) == b[Len(b)] \in 1..Len(KindList(k))

DecItem(k, b) ==
    IF k = "blob" THEN Entry(b[1], BlobList[b[2]]) ELSE KindList(k)[b[1]]

\* serde_json::to_string(&list)
EncodeList(k, q) ==
    <<91>> \o Flatten([i \in 1..Len(q) |-> EncItem(k, q[i])]) \o <<93>>

\* serde_json::to_string(&response): the wanted items with state 1, then
\* the will-give items with state 2
EncodeDiff(k, wanted, given) ==
    <<91>> \o Flatten([i \in 1..Len(wanted) |-> EncItem(k, wanted[i]) \o <<1>>])
           \o Flatten([i \in 1..Len(given) |-> EncItem(k, given[i]) \o <<2>>]) \o <<93>>

\* the w-byte items between the brackets; ok is FALSE when the bytes are
\* no such list
Items(b, w) ==
    IF Len(b) < 2 \/ b[1] # 91 \/ b[Len(b)] # 93 \/ (Len(b) - 2) % w # 0
    THEN [ok |-> FALSE, list |-> <<>>]
    ELSE [ok |-> TRUE,
          list |-> [i \in 1..((Len(b) - 2) \div w) |->
                       SubSeq(b, 2 + (i - 1) * w, 1 + i * w)]]

\* serde_json::from_slice::<Vec<_>>(&data)
DecodeList(k, b) ==
    LET it == Items(b, Width(k))
    IN  IF it.ok /\ \A i \in 1..Len(it.list) : ItemOk(k, it.list[i])
        THEN [ok |-> TRUE, list |-> [i \in 1..Len(it.list) |-> DecItem(k, it.list[i])]]
        ELSE [ok |-> FALSE, list |-> <<>>]

\* serde_json::from_slice::<Vec<_WithState>>(&data), then the items of
\* state 1 (wanted) and those of state 2 (will give)
DecodeDiff(k, b) ==
    LET w == Width(k)
        it == Items(b, w + 1)
        item(x) == DecItem(k, SubSeq(x, 1, w))
        state(n) == [i \in 1..Len(SelectSeq(it.list, LAMBDA x : x[w + 1] = n)) |->
                        item(SelectSeq(it.list, LAMBDA x : x[w + 1] = n)[i])]
    IN  IF it.ok /\ \A i \in 1..Len(it.list) : ItemOk(k, SubSeq(it.list[i], 1, w))
        THEN [ok |-> TRUE, wanted |-> state(1), given |-> state(2)]
        ELSE [ok |-> FALSE, wanted |-> <<>>, given |-> <<>>]

---------------------------------------------------------------------------
(* Sessions ending, and the receive actions.                               *)

Ended == {"done", "failed", "panicked"}

\* The positions of a sync session at which the side owns its RepoGuard:
\* from RepoGuard::new returning to the function returning.
GuardedPcs == {"i_r1", "i_r2", "i_r3", "r_r1s", "r_r1", "r_r2", "r_r3",
               "send", "recv", "move", "wtrees", "wrecords", "latest"}

HoldsGuard(s) == pc[s] \in GuardedPcs

\* A guard that forgets the lock: drop without unlock.
KeepLock(s) == lockFile

\* impl Drop for RepoGuard: repo.unlock().ok() removes LOCK whatever it
\* holds.  The guard is dropped when its owner returns, by `?` or at the
\* end, and when a panic unwinds through it.
DropGuard(s) == [lockFile EXCEPT ![s] = IF HoldsGuard(s) THEN None ELSE @]

\* hist[s].start: the store when the session took the lock; sent: the
\* blobs whose payload the side put on the channel; at: where it ended.
Snapshot(s) == [objects |-> objects[s], trees |-> trees[s],
                records |-> records[s], head |-> head[s]]
HistInit == [start |-> [objects |-> NoFiles, trees |-> {}, records |-> {}, head |-> None],
             sent |-> {}, at |-> "none", locked |-> FALSE]

\* The session function of side s returns (st = "done" or "failed") or
\* unwinds (st = "panicked"): its guard and its websocket are dropped.
EndAs(s, st) ==
    /\ pc' = [pc EXCEPT ![s] = st]
    /\ lockFile' = DropGuard(s)
    /\ hist' = [hist EXCEPT ![s].at = pc[s]]
    /\ open' = FALSE

procVars == <<pc, lockFile, hist, open>>

\* received files go straight into objects/
StorageDirObjects == "objects"

\* recv_file(ws, &temp_objects_dir): the directory received files go to
StorageDir == "temp"

WithFile(dir, name, data) == (name :> data) @@ dir

RecvData(s) ==
    /\ rx[s].phase \in {"pkt_hdr", "pkt_body"}
    /\ CanRecv(s)
    /\ LET got == chan[s] # <<>>
           m == IF got THEN Head(chan[s]) ELSE Bin(<<>>)
           out == IF rx[s].phase = "pkt_hdr"
                  THEN DataHeaderStep(rx[s], got, m)
                  ELSE DataBodyStep(rx[s], got, m)
       IN  /\ chan' = [chan EXCEPT ![s] = IF got THEN Tail(@) ELSE @]
           /\ rx' = [rx EXCEPT ![s] = out.rx]
           /\ IF out.end = "go"
              THEN UNCHANGED procVars
              ELSE EndAs(s, out.end)
    /\ UNCHANGED <<temp, fin, syncVars>>

RecvFile(s) ==
    /\ rx[s].phase \in {"f_namehdr", "f_name", "f_filehdr", "f_data"}
    /\ CanRecv(s)
    /\ LET got == chan[s] # <<>>
           m == IF got THEN Head(chan[s]) ELSE Bin(<<>>)
           out == FileStep(rx[s], got, m)
       IN  /\ chan' = [chan EXCEPT ![s] = IF got THEN Tail(@) ELSE @]
           /\ rx' = [rx EXCEPT ![s] = out.rx]
           /\ temp' = [temp EXCEPT ![s] =
                         IF out.create /\ StorageDir = "temp"
                         THEN WithFile(@, out.rx.name, out.rx.data) ELSE @]
           /\ objects' = [objects EXCEPT ![s] =
                            IF out.create /\ StorageDir # "temp"
                            THEN WithFile(@, out.rx.name, out.rx.data) ELSE @]
           /\ IF out.end = "go"
              THEN UNCHANGED procVars
              ELSE EndAs(s, out.end)
    /\ UNCHANGED <<fin, trees, records, head, loc, kind>>

---------------------------------------------------------------------------
(* The framing harness: side I sends two packets, or two file frames, and  *)
(* side R receives them with recv_data, or recv_file.                      *)

RECURSIVE SeqsUpTo(_, _)
SeqsUpTo(S, n) ==
    IF n = 0 THEN {<<>>}
    ELSE LET shorter == SeqsUpTo(S, n - 1)
         IN  shorter \cup {Append(q, x) : q \in shorter, x \in S}

FramePayloads == SeqsUpTo({1, 2}, MaxLen)
FrameNames == {HexName(97), HexName(98), <<97>>}

FrameInit ==
    /\ chan = [s \in Sides |-> <<>>]
    /\ open = TRUE
    /\ pc = [s \in Sides |-> IF s = "I" THEN "frame_send1" ELSE "frame_recv"]
    /\ temp = [s \in Sides |-> << >>]
    /\ lockFile = [s \in Sides |-> None]
    /\ objects = [s \in Sides |-> << >>]
    /\ trees = [s \in Sides |-> {}]
    /\ records = [s \in Sides |-> {}]
    /\ head = [s \in Sides |-> None]
    /\ loc = [s \in Sides |-> << >>]
    /\ kind = [s \in Sides |-> "wsvc"]
    /\ hist = [s \in Sides |-> HistInit]
    /\ \E mode \in {"data", "file"}, x \in FramePayloads, y \in {<<>>, <<1, 2, 1>>},
          n1 \in FrameNames, n2 \in {HexName(98)} :
            /\ mode = "data" => n1 = HexName(97)
            /\ fin = [mode |-> mode, x |-> x, y |-> y, name1 |-> n1, name2 |-> n2,
                      out |-> <<>>]
            /\ rx = [s \in Sides |->
                       IF s = "I" THEN RxIdle
                       ELSE RxStart(IF mode = "data" THEN "pkt_hdr" ELSE "f_namehdr")]

FrameMsgs(name, data) ==
    IF fin.mode = "data" THEN SendDataMsgs(data) ELSE SendFileMsgs(name, data)

FrameSend ==
    /\ pc["I"] \in {"frame_send1", "frame_send2"}
    /\ chan' = [chan EXCEPT !["R"] =
                   @ \o IF pc["I"] = "frame_send1"
                        THEN FrameMsgs(fin.name1, fin.x)
                        ELSE FrameMsgs(fin.name2, fin.y)]
    /\ pc' = [pc EXCEPT !["I"] = IF @ = "frame_send1" THEN "frame_send2" ELSE "frame_sent"]
    /\ UNCHANGED <<open, rx, temp, lockFile, hist, fin, syncVars>>

\* The receive call returned: keep what it returned, and call again for
\* the second packet or frame.
FrameRecvNext ==
    /\ pc["R"] = "frame_recv"
    /\ rx["R"].phase \in {"pkt_done", "f_done"}
    /\ fin' = [fin EXCEPT !.out = Append(@, [name |-> rx["R"].name, data |-> rx["R"].data])]
    /\ IF Len(fin.out) = 0
       THEN /\ rx' = [rx EXCEPT !["R"] = RxStart(IF fin.mode = "data" THEN "pkt_hdr"
                                                                        ELSE "f_namehdr")]
            /\ pc' = pc
       ELSE /\ rx' = [rx EXCEPT !["R"] = RxIdle]
            /\ pc' = [pc EXCEPT !["R"] = "frame_fin"]
    /\ UNCHANGED <<chan, open, temp, lockFile, hist, syncVars>>

FrameNext ==
    \/ FrameSend
    \/ FrameRecvNext
    \/ RecvData("R")
    \/ RecvFile("R")

SpecFrame == FrameInit /\ [][FrameNext]_vars

---------------------------------------------------------------------------
(* Claims about the framing.                                               *)

FrameSent == pc["I"] = "frame_sent"
FrameReturned(n) == Len(fin.out) >= n
FrameFirstDone(phase) ==
    /\ pc["R"] = "frame_recv"
    /\ rx["R"].phase = phase
    /\ Len(fin.out) = 0

\* C10: recv_data applied to the messages of send_data(x) returns exactly x,
\* for every payload x, the empty one included: it never fails, never waits
\* for a message that was not sent, and when it returns, the messages of the
\* packet sent after x are all still on the channel.
C10_PacketRoundTrip ==
    fin.mode = "data" =>
        /\ pc["R"] \notin {"failed", "panicked"}
        /\ rx["R"].phase # "pkt_spin"
        /\ FrameReturned(1) => fin.out[1].data = fin.x
        /\ FrameReturned(2) => fin.out[2].data = fin.y
        /\ (FrameSent /\ FrameFirstDone("pkt_done")) =>
              /\ rx["R"].data = fin.x
              /\ Len(chan["R"]) = 1 + (Len(fin.y) + WireChunk - 1) \div WireChunk
              /\ Head(chan["R"]).b = PacketMagic \o U32BE(Len(fin.y))
        /\ (FrameSent /\ chan["R"] = <<>>) =>
              (pc["R"] = "frame_fin" \/ rx["R"].phase = "pkt_done")

\* a two-message payload was received whole and the empty packet after it
\* is still queued
C10_Witness ==
    /\ fin.mode = "data"
    /\ FrameSent
    /\ FrameFirstDone("pkt_done")
    /\ Len(fin.x) > WireChunk
    /\ rx["R"].data = fin.x
    /\ fin.y = <<>>
    /\ Len(chan["R"]) = 1

\* C9: recv_file applied to the messages of send_file(name, x) stores
\* exactly the bytes x under the file name `name`: recv(send(x)) = x for
\* file frames.
C9_FileRoundTrip ==
    fin.mode = "file" =>
        /\ pc["R"] \notin {"failed", "panicked"}
        /\ FrameReturned(1) =>
              /\ fin.name1 \in DOMAIN temp["R"]
              /\ temp["R"][fin.name1] = fin.x
        /\ (FrameSent /\ chan["R"] = <<>>) =>
              (pc["R"] = "frame_fin" \/ rx["R"].phase = "f_done")

---------------------------------------------------------------------------
(* The sync session: what each round computes.                             *)

Sid(s) == IF s = "I" THEN "sid-i" ELSE "sid-r"

LocInit == [wr |-> <<>>, gr |-> <<>>, wt |-> <<>>, gt |-> <<>>,
            wb |-> <<>>, gb |-> <<>>, i |-> 0]

\* cli sync_records: wanted = the server's records this side lacks,
\* will give = this side's records the server did not list
IRecordsDiff(s, server) ==
    LET local == GetRecords(s)
    IN  [ok |-> TRUE,
         wanted |-> SelectSeq(server, LAMBDA r : ~Contains(local, r)),
         given |-> SelectSeq(local, LAMBDA r : ~Contains(server, r))]

\* cli sync_trees: local_trees = the trees of the will-give records;
\* wanted = the server's trees with no file here, will give = the local
\* trees the server did not list
ITreesDiff(s, server, givenRecords) ==
    LET local == TreesOfRecords(s, givenRecords)
    IN  [ok |-> local.ok,
         wanted |-> SelectSeq(server, LAMBDA t : ~TreeExists(s, t)),
         given |-> SelectSeq(local.list, LAMBDA t : ~Contains(server, t))]

\* cli sync_blobs_meta: local_blobs = the blobs of the will-give trees;
\* wanted = the server's blobs with no file here, will give = the local
\* blobs the server did not list
IBlobsDiff(s, server, givenTrees) ==
    LET local == BlobsOfTrees(s, givenTrees)
    IN  [ok |-> local.ok,
         wanted |-> SelectSeq(server, LAMBDA e : ~BlobExists(s, e.hash)),
         given |-> SelectSeq(local.list, LAMBDA e : ~ContainsBlob(server, e))]

\* In round 4 the Initiator receives its wanted blobs and sends its
\* will-give blobs; the Responder sends the blobs the Initiator wants and
\* receives those it will give.
Incoming(s) == IF s = "I" THEN loc[s].wb ELSE loc[s].gb
Outgoing(s) == IF s = "I" THEN loc[s].gb ELSE loc[s].wb

\* an Initiator that writes no record it received
NoRecordsIn(s) == IF s = "I" THEN <<>> ELSE loc[s].gr

\* the trees and the records a side writes at the end of the session
TreesIn(s) == IF s = "I" THEN loc[s].wt ELSE loc[s].gt
RecordsIn(s) == IF s = "I" THEN loc[s].wr ELSE loc[s].gr

\* both sides begin round 4 with their sending loop
SendFirst(s) == "send"

\* sync_blobs of the client receives, verifies, sends, moves; that of the
\* server sends, receives, verifies, moves.
FirstOfRound4(s) == IF s = "I" THEN "recv" ELSE "send"

\* records first, blobs last
ReverseOrder == <<"wrecords", "wtrees", "move">>

\* after the blobs are moved: the trees, then the records
PromotionOrder == <<"move", "wtrees", "wrecords">>

\* the position after position p of round 4 and of the promotion
After(s, p) ==
    IF p = FirstOfRound4(s) THEN (IF s = "I" THEN "send" ELSE "recv")
    ELSE IF p \in {"send", "recv"} THEN PromotionOrder[1]
    ELSE IF Code(PromotionOrder, p) < Len(PromotionOrder)
         THEN PromotionOrder[Code(PromotionOrder, p) + 1]
    ELSE IF s = "I" THEN "latest" ELSE "done"

\* The messages of a sender that emits what recv_file reads: the name
\* header, the file name, the file header, the data.
PeerSendFileMsgs(name, file) ==
    << Bin(NameMagic \o U16BE(Len(name))), Bin(name),
       Bin(FileMagic \o U32BE(Len(file))) >> \o ChunksFrom(file, 0, WireChunk)

FileMsgs(s, name, file) ==
    IF kind[s] = "wsvc" THEN SendFileMsgs(name, file) ELSE PeerSendFileMsgs(name, file)

\* the orders in which read_dir may list the files of records/: it gives
\* no order, so every order of the records of the store
Listings(s) ==
    {q \in [1..Cardinality(records[s]) -> records[s]] :
        \A i, j \in 1..Cardinality(records[s]) : q[i] = q[j] => i = j}

\* a latest record that is the first in the order of RecordList
LatestByName(rs) ==
    IF rs = <<>> THEN None
    ELSE LET newest == {r \in Range(rs) : \A x \in Range(rs) :
                                              RecordOf(x).date <= RecordOf(r).date}
         IN  CHOOSE r \in newest : \A x \in newest : Code(RecordList, r) <= Code(RecordList, x)

\* a latest record that is the first one listed
FirstListed(rs) == IF rs = <<>> THEN None ELSE rs[1]

\* get_latest_record on the listing rs of records/:
\* records.sort_by(|a, b| b.date.cmp(&a.date)), then records[0]; the sort
\* is stable and leaves records of one date in the order of rs
LatestOf(rs) ==
    LET newest == SelectSeq(rs, LAMBDA r : \A j \in 1..Len(rs) :
                                   RecordOf(rs[j]).date <= RecordOf(r).date)
    IN  IF rs = <<>> THEN None ELSE newest[1]

\* checkout_record(hash) succeeds: the record, its trees and their blobs
\* can all be read
CanCheckout(s, r) ==
    LET ts == TreesOfRecord(s, r)
        bs == BlobsOfTrees(s, ts.list)
    IN  /\ ts.ok
        /\ \A i \in 1..Len(bs.list) : BlobExists(s, bs.list[i].hash)

---------------------------------------------------------------------------
(* The sync session: its steps.                                            *)

Goto(s, p) == pc' = [pc EXCEPT ![s] = p]

SendTo(s, msgs) == chan' = [chan EXCEPT ![Peer(s)] = @ \o msgs]

\* check_lock: Ok when LOCK does not exist or holds the id of the session,
\* else WorkspaceLocked
CheckLockOk(content, sid) == content = None \/ content = sid

\* RepoGuard::new, first half: repo.check_lock()
CheckLock(s) ==
    /\ pc[s] = "start"
    /\ IF CheckLockOk(lockFile[s], Sid(s))
       THEN Goto(s, "locking") /\ UNCHANGED <<lockFile, hist, open>>
       ELSE EndAs(s, "failed")
    /\ UNCHANGED <<chan, rx, temp, fin, syncVars>>

\* RepoGuard::new, second half: repo.lock(), and the guard exists.  The
\* Initiator then connects and waits for the records of the server.
Lock(s) ==
    /\ pc[s] = "locking"
    /\ lockFile' = [lockFile EXCEPT ![s] = Sid(s)]
    /\ hist' = [hist EXCEPT ![s].start = Snapshot(s), ![s].locked = TRUE]
    /\ Goto(s, IF s = "I" THEN "i_r1" ELSE "r_r1s")
    /\ rx' = [rx EXCEPT ![s] = IF s = "I" THEN RxStart("pkt_hdr") ELSE @]
    /\ UNCHANGED <<chan, open, temp, fin, syncVars>>

\* A step that sends the packet `data` and then waits in recv_data, or
\* fails when ok is FALSE or the connection is down.
SendPacketOrFail(s, ok, data, next) ==
    IF ok /\ open
    THEN /\ SendTo(s, SendDataMsgs(data))
         /\ rx' = [rx EXCEPT ![s] = RxStart("pkt_hdr")]
         /\ Goto(s, next)
         /\ UNCHANGED <<lockFile, hist, open>>
    ELSE /\ EndAs(s, "failed")
         /\ rx' = [rx EXCEPT ![s] = RxIdle]
         /\ UNCHANGED chan

\* The rounds are over: enter round 4 with the lists of the side.
EnterRound4(s, wanted, given) ==
    /\ loc' = [loc EXCEPT ![s].wb = wanted, ![s].gb = given, ![s].i = 0]
    /\ rx' = [rx EXCEPT ![s] = RxIdle]
    /\ Goto(s, FirstOfRound4(s))
    /\ UNCHANGED <<lockFile, hist, open>>

\* server sync_records, first half: send all the records
RSendRecords ==
    /\ pc["R"] = "r_r1s"
    /\ SendPacketOrFail("R", TRUE, EncodeList("rec", GetRecords("R")), "r_r1")
    /\ UNCHANGED <<temp, fin, syncVars>>

\* cli sync_records
IDiff1 ==
    /\ pc["I"] = "i_r1" /\ rx["I"].phase = "pkt_done"
    /\ LET server == DecodeList("rec", rx["I"].data)
           d == IRecordsDiff("I", server.list)
       IN  /\ SendPacketOrFail("I", server.ok, EncodeDiff("rec", d.wanted, d.given), "i_r2")
           /\ loc' = [loc EXCEPT !["I"].wr = d.wanted, !["I"].gr = d.given]
    /\ UNCHANGED <<temp, fin, storeVars, kind>>

\* a Responder that sends the trees of all its records as soon as it has
\* sent its records, without waiting for the diff of round 1
RDiff1NoWait ==
    /\ pc["R"] = "r_r1"
    /\ SendPacketOrFail("R", TRUE,
           EncodeList("tree", TreesOfRecords("R", GetRecords("R")).list), "r_r2")
    /\ loc' = [loc EXCEPT !["R"].wr = GetRecords("R")]
    /\ UNCHANGED <<temp, fin, storeVars, kind>>

\* server sync_records, second half, and sync_trees, first half: send the
\* trees of the records the client wants
RDiff1 ==
    /\ pc["R"] = "r_r1" /\ rx["R"].phase = "pkt_done"
    /\ LET d == DecodeDiff("rec", rx["R"].data)
           ts == TreesOfRecords("R", d.wanted)
       IN  /\ SendPacketOrFail("R", d.ok /\ ts.ok, EncodeList("tree", ts.list), "r_r2")
           /\ loc' = [loc EXCEPT !["R"].wr = d.wanted, !["R"].gr = d.given]
    /\ UNCHANGED <<temp, fin, storeVars, kind>>

\* cli sync_trees
IDiff2 ==
    /\ pc["I"] = "i_r2" /\ rx["I"].phase = "pkt_done"
    /\ LET server == DecodeList("tree", rx["I"].data)
           d == ITreesDiff("I", server.list, loc["I"].gr)
       IN  /\ SendPacketOrFail("I", server.ok /\ d.ok,
                               EncodeDiff("tree", d.wanted, d.given), "i_r3")
           /\ loc' = [loc EXCEPT !["I"].wt = d.wanted, !["I"].gt = d.given]
    /\ UNCHANGED <<temp, fin, storeVars, kind>>

\* server sync_trees, second half, and sync_blobs_meta, first half: send
\* the blobs of the trees the client wants
RDiff2 ==
    /\ pc["R"] = "r_r2" /\ rx["R"].phase = "pkt_done"
    /\ LET d == DecodeDiff("tree", rx["R"].data)
           bs == BlobsOfTrees("R", d.wanted)
       IN  /\ SendPacketOrFail("R", d.ok /\ bs.ok, EncodeList("blob", bs.list), "r_r3")
           /\ loc' = [loc EXCEPT !["R"].wt = d.wanted, !["R"].gt = d.given]
    /\ UNCHANGED <<temp, fin, storeVars, kind>>

\* cli sync_blobs_meta, then sync_blobs begins
IDiff3 ==
    /\ pc["I"] = "i_r3" /\ rx["I"].phase = "pkt_done"
    /\ LET server == DecodeList("blob", rx["I"].data)
           d == IBlobsDiff("I", server.list, loc["I"].gt)
       IN  IF server.ok /\ d.ok /\ open
           THEN /\ SendTo("I", SendDataMsgs(EncodeDiff("blob", d.wanted, d.given)))
                /\ EnterRound4("I", d.wanted, d.given)
           ELSE /\ EndAs("I", "failed")
                /\ rx' = [rx EXCEPT !["I"] = RxIdle]
                /\ UNCHANGED <<chan, loc>>
    /\ UNCHANGED <<temp, fin, storeVars, kind>>

\* server sync_blobs_meta, second half, then sync_blobs begins
RDiff3 ==
    /\ pc["R"] = "r_r3" /\ rx["R"].phase = "pkt_done"
    /\ LET d == DecodeDiff("blob", rx["R"].data)
       IN  IF d.ok
           THEN EnterRound4("R", d.wanted, d.given)
           ELSE /\ EndAs("R", "failed")
                /\ rx' = [rx EXCEPT !["R"] = RxIdle]
                /\ UNCHANGED loc
    /\ UNCHANGED <<chan, temp, fin, storeVars, kind>>

\* The loop at position pc[s] is over: go on with the next one, or return
\* Ok(()) after the last.
Advance(s) ==
    IF After(s, pc[s]) = "done"
    THEN EndAs(s, "done")
    ELSE Goto(s, After(s, pc[s])) /\ UNCHANGED <<lockFile, hist, open>>

Without(dir, name) == [n \in DOMAIN dir \ {name} |-> dir[n]]

\* sync_blobs, `for _ in 0..len { recv_file(..) }`: call recv_file once
\* more; after the last call, check that the file of every expected blob
\* exists in temp/objects.
RecvNext(s) ==
    /\ pc[s] = "recv" /\ rx[s].phase \in {"idle", "f_done"}
    /\ IF loc[s].i < Len(Incoming(s))
       THEN /\ rx' = [rx EXCEPT ![s] = RxStart("f_namehdr")]
            /\ loc' = [loc EXCEPT ![s].i = @ + 1]
            /\ UNCHANGED procVars
       ELSE /\ rx' = [rx EXCEPT ![s] = RxIdle]
            /\ loc' = [loc EXCEPT ![s].i = 0]
            /\ IF \A j \in 1..Len(Incoming(s)) :
                     FpHex(Incoming(s)[j].hash) \in Files(temp[s])
               THEN Advance(s)
               ELSE EndAs(s, "failed")
    /\ UNCHANGED <<chan, temp, fin, storeVars, kind>>

\* sync_blobs, the sending loop: File::open the object, send_file it
SendNext(s) ==
    /\ pc[s] = "send"
    /\ IF loc[s].i < Len(Outgoing(s))
       THEN LET b == Outgoing(s)[loc[s].i + 1].hash
            IN  IF BlobExists(s, b) /\ open /\ Len(FpHex(b)) <= MaxNameLen
                THEN /\ SendTo(s, FileMsgs(s, FpHex(b), objects[s][FpHex(b)]))
                     /\ loc' = [loc EXCEPT ![s].i = @ + 1]
                     /\ hist' = [hist EXCEPT ![s].sent = @ \cup {b}]
                     /\ UNCHANGED <<pc, lockFile, open>>
                ELSE /\ EndAs(s, "failed")
                     /\ UNCHANGED <<chan, loc>>
       ELSE /\ loc' = [loc EXCEPT ![s].i = 0]
            /\ Advance(s)
            /\ UNCHANGED chan
    /\ UNCHANGED <<rx, temp, fin, storeVars, kind>>

\* sync_blobs, the moving loop: rename(temp/objects/<fp>, objects/<fp>)
MoveNext(s) ==
    /\ pc[s] = "move"
    /\ IF loc[s].i < Len(Incoming(s))
       THEN LET name == FpHex(Incoming(s)[loc[s].i + 1].hash)
            IN  IF name \in Files(temp[s])
                THEN /\ objects' = [objects EXCEPT ![s] = WithFile(@, name, temp[s][name])]
                     /\ temp' = [temp EXCEPT ![s] = Without(@, name)]
                     /\ loc' = [loc EXCEPT ![s].i = @ + 1]
                     /\ UNCHANGED procVars
                ELSE /\ EndAs(s, "failed")
                     /\ UNCHANGED <<objects, temp, loc>>
       ELSE /\ loc' = [loc EXCEPT ![s].i = 0]
            /\ Advance(s)
            /\ UNCHANGED <<objects, temp>>
    /\ UNCHANGED <<chan, rx, fin, trees, records, head, kind>>

\* `for tree in trees { write(trees_dir.join(hash), json) }`
WriteTreeNext(s) ==
    /\ pc[s] = "wtrees"
    /\ IF loc[s].i < Len(TreesIn(s))
       THEN /\ trees' = [trees EXCEPT ![s] = @ \cup {TreesIn(s)[loc[s].i + 1]}]
            /\ loc' = [loc EXCEPT ![s].i = @ + 1]
            /\ UNCHANGED procVars
       ELSE /\ loc' = [loc EXCEPT ![s].i = 0]
            /\ Advance(s)
            /\ UNCHANGED trees
    /\ UNCHANGED <<chan, rx, temp, fin, objects, records, head, kind>>

\* `for record in records { write(records_dir.join(hash), json) }`
WriteRecordNext(s) ==
    /\ pc[s] = "wrecords"
    /\ IF loc[s].i < Len(RecordsIn(s))
       THEN /\ records' = [records EXCEPT ![s] = @ \cup {RecordsIn(s)[loc[s].i + 1]}]
            /\ loc' = [loc EXCEPT ![s].i = @ + 1]
            /\ UNCHANGED procVars
       ELSE /\ loc' = [loc EXCEPT ![s].i = 0]
            /\ Advance(s)
            /\ UNCHANGED records
    /\ UNCHANGED <<chan, rx, temp, fin, objects, trees, head, kind>>

\* cli sync, after sync_impl: get_latest_record, EmptyRepoError when there
\* is none, else checkout_record: HEAD is written and temp/ removed.
ILatest ==
    /\ pc["I"] = "latest"
    /\ \E rs \in Listings("I") :
       LET r == LatestOf(rs)
       IN  IF r # None /\ CanCheckout("I", r)
           THEN /\ head' = [head EXCEPT !["I"] = r]
                /\ temp' = [temp EXCEPT !["I"] = NoFiles]
                /\ EndAs("I", "done")
           ELSE /\ EndAs("I", "failed")
                /\ UNCHANGED <<head, temp>>
    /\ UNCHANGED <<chan, rx, fin, objects, trees, records, loc, kind>>

\* The connection goes down; the messages still in flight are delivered,
\* or lost with it.
Drop ==
    /\ open
    /\ \E s \in Sides : pc[s] \notin Ended
    /\ open' = FALSE
    /\ \E lose \in BOOLEAN :
          chan' = IF lose THEN [s \in Sides |-> <<>>] ELSE chan
    /\ UNCHANGED <<pc, rx, temp, lockFile, hist, fin, syncVars>>

\* A rename or a write of the store fails with an OS error.
FsFail(s) ==
    /\ pc[s] \in Range(PromotionOrder) \cup {"latest"}
    /\ EndAs(s, "failed")
    /\ UNCHANGED <<chan, rx, temp, fin, syncVars>>

---------------------------------------------------------------------------
(* The sync specification.                                                 *)

RECURSIVE ReachTrees(_)
ReachTrees(S) ==
    LET more == S \cup UNION {Range(TreeOf(t).trees) : t \in S}
    IN  IF more = S THEN S ELSE ReachTrees(more)

TreesOfSet(RS) == ReachTrees({RecordOf(r).root : r \in RS})
BlobsOfSet(TS) == UNION {{TreeOf(t).blobs[i].hash : i \in 1..Len(TreeOf(t).blobs)} : t \in TS}

\* objects/ holding the blobs BS as store_blob_file wrote them
ObjectsOf(BS) ==
    [n \in {FpHex(b) : b \in BS} |->
        StoredForm(BlobContent(CHOOSE b \in BS : FpHex(b) = n))]

\* objects/ of a peer whose file of blob b holds the bytes of another blob
Swapped(BS, bad) ==
    [n \in {FpHex(b) : b \in BS} |->
        LET b == CHOOSE x \in BS : FpHex(x) = n
        IN  IF b \in bad THEN StoredForm(BlobContent(CHOOSE y \in BlobIds : y # b))
            ELSE StoredForm(BlobContent(b))]

Kinds == { [I |-> "wsvc", R |-> "wsvc"], [I |-> "wsvc", R |-> "peer"],
           [I |-> "peer", R |-> "wsvc"] }

\* the records a store starts with: any of r1, r2, r3, or r1 and r4, two
\* records of two dates that have no blob in common
StartRecords == SUBSET {"r1", "r2", "r3"} \cup {{"r1", "r4"}}

OrphanSets == {{}, {"b2"}}
BadSets == {{}, {"b1"}}

\* Each side holds the records of some commits with all their trees and
\* blobs, and maybe a blob no record leads to (what a commit leaves behind
\* when it fails after store_blob_file).  One side may be a peer that is
\* not this program; its object files may hold other bytes.
SyncInit ==
    /\ chan = [s \in Sides |-> <<>>]
    /\ open = TRUE
    /\ pc = [s \in Sides |-> "start"]
    /\ rx = [s \in Sides |-> RxIdle]
    /\ temp = [s \in Sides |-> NoFiles]
    /\ lockFile = [s \in Sides |-> None]
    /\ fin = [mode |-> "sync", run |-> 1, moved |-> FALSE]
    /\ head = [s \in Sides |-> None]
    /\ loc = [s \in Sides |-> LocInit]
    /\ hist = [s \in Sides |-> HistInit]
    /\ kind \in Kinds
    /\ \E ri, rr \in StartRecords, oi, orr \in OrphanSets, bad \in BadSets :
          /\ records = [I |-> ri, R |-> rr]
          /\ trees = [I |-> TreesOfSet(ri), R |-> TreesOfSet(rr)]
          /\ objects = [s \in Sides |->
                LET RS == IF s = "I" THEN ri ELSE rr
                    BS == BlobsOfSet(TreesOfSet(RS)) \cup (IF s = "I" THEN oi ELSE orr)
                IN  IF kind[s] = "peer" THEN Swapped(BS, bad) ELSE ObjectsOf(BS)]
          /\ (\A s \in Sides : kind[s] = "wsvc") => bad = {}

\* The user runs sync once more after a sync that returned Ok on both
\* sides: a new connection, a new session on each side, over the stores,
\* the HEAD and the temp directories the first run left.  fin.moved keeps
\* whether the first run sent any blob payload.
MaxRuns == 2

SyncAgain ==
    /\ fin.run < MaxRuns
    /\ \A s \in Sides : pc[s] = "done"
    /\ fin' = [fin EXCEPT !.run = @ + 1,
                          !.moved = \E s \in Sides : hist[s].sent # {}]
    /\ pc' = [s \in Sides |-> "start"]
    /\ open' = TRUE
    /\ chan' = [s \in Sides |-> <<>>]
    /\ rx' = [s \in Sides |-> RxIdle]
    /\ loc' = [s \in Sides |-> LocInit]
    /\ hist' = [s \in Sides |-> HistInit]
    /\ UNCHANGED <<temp, lockFile, storeVars, kind>>

SyncNext ==
    \/ SyncAgain
    \/ \E s \in Sides : CheckLock(s)
    \/ \E s \in Sides : Lock(s)
    \/ RSendRecords
    \/ IDiff1
    \/ RDiff1
    \/ IDiff2
    \/ RDiff2
    \/ IDiff3
    \/ RDiff3
    \/ \E s \in Sides : RecvData(s)
    \/ \E s \in Sides : RecvFile(s)
    \/ \E s \in Sides : RecvNext(s)
    \/ \E s \in Sides : SendNext(s)
    \/ \E s \in Sides : MoveNext(s)
    \/ \E s \in Sides : WriteTreeNext(s)
    \/ \E s \in Sides : WriteRecordNext(s)
    \/ ILatest
    \/ Drop
    \/ \E s \in Sides : FsFail(s)

SpecSync == SyncInit /\ [][SyncNext]_vars

---------------------------------------------------------------------------
(* Sessions on one repository: the repository of side "R" is used at the   *)
(* same time by guarded operations (sync_with, sync, clone), by commits    *)
(* and by checkouts.  fin.ses[id] is the session id: its operation op and  *)
(* its position at; fin.last is the session that took the last step.       *)

Sessions == {"s1", "s2", "s3"}
Ops == {"guarded", "commit", "checkout"}

SesAt(id, p) == fin.ses[id].at = p
SesGoto(id, p) == fin' = [fin EXCEPT !.ses[id].at = p, !.last = id]

\* the session owns a RepoGuard
SesHolds(id) == fin.ses[id].at \in {"in", "wrote"}

notRepo == <<chan, open, pc, rx, loc, kind, hist>>

\* RepoGuard::new, first half: repo.check_lock()
SesCheckLock(id) ==
    /\ fin.ses[id].op = "guarded"
    /\ SesAt(id, "start")
    /\ SesGoto(id, IF CheckLockOk(lockFile["R"], id) THEN "locking" ELSE "locked_out")
    /\ UNCHANGED <<lockFile, temp, storeVars, notRepo>>

\* RepoGuard::new, second half: repo.lock() writes the id into LOCK
SesLock(id) ==
    /\ SesAt(id, "locking")
    /\ lockFile' = [lockFile EXCEPT !["R"] = id]
    /\ SesGoto(id, "in")
    /\ UNCHANGED <<temp, storeVars, notRepo>>

\* the store with the record r, its trees and their blobs added
StoreWith(f, r) ==
    [objects |-> ObjectsOf(BlobsOfSet(TreesOfSet({r}))) @@ f.objects,
     trees |-> f.trees \cup TreesOfSet({r}),
     records |-> f.records \cup {r},
     head |-> f.head]

PutStore(f) ==
    /\ objects' = [objects EXCEPT !["R"] = f.objects]
    /\ trees' = [trees EXCEPT !["R"] = f.trees]
    /\ records' = [records EXCEPT !["R"] = f.records]
    /\ head' = [head EXCEPT !["R"] = f.head]

\* The guarded operation promotes what it received: blobs, trees, records.
SesPromote(id) ==
    /\ SesAt(id, "in")
    /\ \E r \in RecordIds \ records["R"] : PutStore(StoreWith(Snapshot("R"), r))
    /\ SesGoto(id, "wrote")
    /\ UNCHANGED <<lockFile, temp, notRepo>>

\* The guarded operation returns and its guard is dropped: unlock()
SesDrop(id) ==
    /\ SesHolds(id)
    /\ lockFile' = [lockFile EXCEPT !["R"] = None]
    /\ SesGoto(id, "done")
    /\ UNCHANGED <<temp, storeVars, notRepo>>

\* find_record_for_tree: a record of the store whose root is the tree
HasRecordFor(s, t) == \E r \in records[s] : RecordOf(r).root = t

\* cli commit: repo.commit_record(workspace, ..) for the workspace whose
\* record is r.  NoChanges when the tree was there and a record has it as
\* root; else the blobs, the trees and the record are stored and HEAD is
\* written.
SesCommit(id) ==
    /\ fin.ses[id].op = "commit"
    /\ SesAt(id, "start")
    /\ \E r \in RecordIds :
          IF TreeExists("R", RecordOf(r).root) /\ HasRecordFor("R", RecordOf(r).root)
          THEN /\ SesGoto(id, "failed")
               /\ UNCHANGED storeVars
          ELSE /\ PutStore([StoreWith(Snapshot("R"), r) EXCEPT !.head = r])
               /\ SesGoto(id, "done")
    /\ UNCHANGED <<lockFile, temp, notRepo>>

\* cli checkout: repo.checkout_record(hash, workspace) writes HEAD and
\* removes temp/
SesCheckout(id) ==
    /\ fin.ses[id].op = "checkout"
    /\ SesAt(id, "start")
    /\ \E r \in records["R"] :
          /\ CanCheckout("R", r)
          /\ head' = [head EXCEPT !["R"] = r]
          /\ temp' = [temp EXCEPT !["R"] = NoFiles]
    /\ SesGoto(id, "done")
    /\ UNCHANGED <<lockFile, objects, trees, records, notRepo>>

LockInit ==
    /\ chan = [s \in Sides |-> <<>>]
    /\ open = TRUE
    /\ pc = [s \in Sides |-> "idle"]
    /\ rx = [s \in Sides |-> RxIdle]
    /\ temp = [s \in Sides |-> NoFiles]
    /\ lockFile = [s \in Sides |-> None]
    /\ loc = [s \in Sides |-> LocInit]
    /\ hist = [s \in Sides |-> HistInit]
    /\ kind = [s \in Sides |-> "wsvc"]
    /\ head = [s \in Sides |-> None]
    /\ \E rr \in SUBSET RecordIds :
          /\ records = [s \in Sides |-> IF s = "R" THEN rr ELSE {}]
          /\ trees = [s \in Sides |-> IF s = "R" THEN TreesOfSet(rr) ELSE {}]
          /\ objects = [s \in Sides |->
                          IF s = "R" THEN ObjectsOf(BlobsOfSet(TreesOfSet(rr)))
                          ELSE NoFiles]
    /\ \E ops \in [Sessions -> Ops] :
          fin = [mode |-> "lock", last |-> None,
                 ses |-> [id \in Sessions |-> [op |-> ops[id], at |-> "start"]]]

LockNext ==
    \E id \in Sessions :
        \/ SesCheckLock(id)
        \/ SesLock(id)
        \/ SesPromote(id)
        \/ SesDrop(id)
        \/ SesCommit(id)
        \/ SesCheckout(id)

SpecLock == LockInit /\ [][LockNext]_vars

---------------------------------------------------------------------------
(* Claims about the lock.                                                  *)

\* C1: of the sessions that try to take the lock of one repository, at most
\* one holds it at any time: two sessions with different ids never both
\* own a guard of the same repository.
C1_MutualExclusion ==
    \A a, b \in Sessions : (SesHolds(a) /\ SesHolds(b)) => a = b

\* C3: every step that changes objects/, trees/, records/ or HEAD of the
\* repository is taken by a session whose id is in LOCK before and after
\* the step.
C3_LockScope ==
    [][storeVars' # storeVars =>
          (lockFile["R"] = fin'.last /\ lockFile'["R"] = fin'.last)]_vars

\* what a side did under its guard is over: it returned Ok or Err
Returned(s) == pc[s] \in {"done", "failed"}

\* C2: once a session that took the lock has returned, with success or with
\* an error from any step, LOCK is absent.
C2_LockReleased ==
    \A s \in Sides : (hist[s].locked /\ Returned(s)) => lockFile[s] = None

\* a session failed in the middle of round 4, after taking the lock
C2_Witness ==
    \E s \in Sides :
        /\ hist[s].locked
        /\ pc[s] = "failed"
        /\ hist[s].at \in {"recv", "send", "move"}
        /\ lockFile[s] = None

---------------------------------------------------------------------------
(* Claims about the sync session.                                          *)

Fps(dir) == Files(dir)

BothDone == \A s \in Sides : pc[s] = "done"

SameStores ==
    /\ Fps(objects["I"]) = Fps(objects["R"])
    /\ trees["I"] = trees["R"]
    /\ records["I"] = records["R"]

\* every tree and every blob of the store f is reachable from a record of f
AllReachable(f) ==
    /\ f.trees = TreesOfSet(f.records)
    /\ Fps(f.objects) = {FpHex(b) : b \in BlobsOfSet(TreesOfSet(f.records))}

C5_Minimality ==
    \A s \in Sides : kind[s] = "wsvc" => \A b \in hist[s].sent :
        /\ FpHex(b) \in Fps(hist[s].start.objects)
        /\ FpHex(b) \notin Fps(hist[Peer(s)].start.objects)

\* the file `stored` of objects/, named `name`, decompresses to bytes whose
\* fingerprint is its name
ChecksumOk(name, stored) ==
    /\ ReadStored(stored).ok
    /\ Fingerprint(ReadStored(stored).data) = name

\* C6: a blob file received in round 4 whose decompressed bytes do not have
\* the fingerprint it is named by is not promoted into objects/: every file
\* of objects/ of a side running this program passes the check.
C6_ChecksumVerified ==
    \A s \in Sides : kind[s] = "wsvc" =>
        \A n \in Fps(objects[s]) : ChecksumOk(n, objects[s][n])

\* a side whose session ended by an error or a panic while it was in the
\* receiving or the sending loop of round 4
FailedInTransfer(s) ==
    /\ pc[s] \in {"failed", "panicked"}
    /\ hist[s].at \in {"recv", "send"}

\* C7: when the session of a side fails while the side is still receiving
\* or sending blob payloads, its objects/ is what it was before the
\* session.
C7_NoRollbackSafety ==
    \A s \in Sides : FailedInTransfer(s) => objects[s] = hist[s].start.objects

\* a side failed in the receiving loop with a received file in temp/
C7_Witness ==
    \E s \in Sides :
        /\ kind[s] = "wsvc"
        /\ FailedInTransfer(s)
        /\ hist[s].at = "recv"
        /\ temp[s] # NoFiles
        /\ objects[s] = hist[s].start.objects

\* every record of the side has the trees reachable from its root in
\* trees/ and the blobs they list in objects/
NoDangling(s) ==
    /\ TreesOfSet(records[s]) \subseteq trees[s]
    /\ \A b \in BlobsOfSet(TreesOfSet(records[s])) : BlobExists(s, b)

\* C8: a side moves the received blobs first, then writes the trees, then
\* the records: while it moves blobs its trees/ and records/ are as at the
\* start, while it writes trees its records/ is; and in every state, also
\* after a failure in the middle, no record of a side lacks a tree or a
\* blob.
C8_PromotionOrder ==
    \A s \in Sides :
        /\ pc[s] \in {"recv", "send", "move"} =>
              (trees[s] = hist[s].start.trees /\ records[s] = hist[s].start.records)
        /\ pc[s] = "wtrees" => records[s] = hist[s].start.records
        /\ NoDangling(s)

\* a side failed while writing trees, after it moved a blob and wrote a tree
C8_Witness ==
    \E s \in Sides :
        /\ kind[s] = "wsvc"
        /\ pc[s] = "failed"
        /\ hist[s].at = "wtrees"
        /\ Fps(objects[s]) # Fps(hist[s].start.objects)
        /\ trees[s] # hist[s].start.trees
        /\ trees[s] # hist[s].start.trees \cup Range(TreesIn(s))


---------------------------------------------------------------------------
(* The workspace: commit_record and checkout_record on the repository of   *)
(* side "R".  A directory is the sequence of its entries in the order      *)
(* read_dir yields them, which the model takes to be the order of their    *)
(* names; an entry is a file (its bytes in data) or a directory (its       *)
(* entries in sub).  Names are single characters; DotWsvc stands for the   *)
(* name `.wsvc`.                                                           *)
(*                                                                         *)
(* Trees and records are not drawn from a list here: the fingerprint of a  *)
(* tree or of a record is modelled by the value that is hashed, so equal   *)
(* fingerprints are equal serialized values (blake3 is taken to be         *)
(* collision free).  The `trees` field of a tree holds the fingerprints of *)
(* its child trees, that is the child trees themselves.  HEAD is <<>>      *)
(* when empty and <<r>> when it holds the fingerprint of the record r.     *)
(* The fingerprint of a blob stays a name of BlobList.                     *)

DotWsvc == 0

File(name, data) == [name |-> name, dir |-> FALSE, data |-> data, sub |-> <<>>]
Dir(name, sub) == [name |-> name, dir |-> TRUE, data |-> <<>>, sub |-> sub]

EntryNames(d) == {d[i].name : i \in 1..Len(d)}
Has(d, name) == name \in EntryNames(d)
EntryAt(d, name) == d[CHOOSE i \in 1..Len(d) : d[i].name = name]
Remove(d, name) == SelectSeq(d, LAMBDA e : e.name # name)

\* the entry e created or replaced
Put(d, e) ==
    SelectSeq(d, LAMBDA x : x.name < e.name) \o <<e>>
        \o SelectSeq(d, LAMBDA x : x.name > e.name)

\* the bytes the hasher is fed: hasher.update(chunk) for each chunk read
RECURSIVE HashedFrom(_, _)
HashedFrom(content, offset) ==
    IF offset < Len(content)
    THEN LET end == Min(offset + StoreChunk, Len(content))
         IN  SubSeq(content, offset + 1, end) \o HashedFrom(content, end)
    ELSE <<>>

\* ObjectId(hasher.finalize()) as a name of BlobList: the fingerprint of
\* the bytes the hasher was fed
HashOf(content) ==
    CHOOSE b \in BlobIds : BlobContent(b) = HashedFrom(content, 0)

\* store_blob_file_impl: the fingerprint and the file written to objects/
StoreBlobFile(content) ==
    [hash |-> HashOf(content), stored |-> StoredForm(content)]

\* checkout_blob_file_impl, read_blob: open objects/<hash> and decode it
CheckoutBlobFile(s, b) ==
    IF FpHex(b) \in Files(objects[s]) THEN ReadStored(objects[s][FpHex(b)])
    ELSE [ok |-> FALSE, data |-> <<>>]

\* a check that takes every file that is there to match
AssumeMatch(b, data) == TRUE

\* Blob::checksum: hash the bytes of the workspace file, compare
Checksum(b, data) == HashOf(data) = b

Dirs(d) == SelectSeq(d, LAMBDA e : e.dir /\ e.name # DotWsvc)
RegularFiles(d) == SelectSeq(d, LAMBDA e : ~e.dir)

\* build_tree: the tree of a directory, sub-directories named `.wsvc`
\* skipped, with name the last component of the path it was given
RECURSIVE BuildTree(_, _)
BuildTree(name, d) ==
    [name |-> name,
     trees |-> [i \in 1..Len(Dirs(d)) |-> BuildTree(Dirs(d)[i].name, Dirs(d)[i].sub)],
     blobs |-> [i \in 1..Len(RegularFiles(d)) |->
                  Entry(RegularFiles(d)[i].name,
                        StoreBlobFile(RegularFiles(d)[i].data).hash)]]

\* the files build_tree writes to objects/ while it walks the directory
RECURSIVE BlobFiles(_)
BlobFiles(d) ==
    IF d = <<>> THEN NoFiles
    ELSE LET e == Head(d)
             here == IF e.dir
                     THEN IF e.name = DotWsvc THEN NoFiles ELSE BlobFiles(e.sub)
                     ELSE WithFile(NoFiles, FpHex(StoreBlobFile(e.data).hash),
                                   StoreBlobFile(e.data).stored)
         IN  BlobFiles(Tail(d)) @@ here

\* store_tree_file_impl: the tree and every tree below it
RECURSIVE AllTrees(_)
AllTrees(t) == {t} \cup UNION {AllTrees(t.trees[i]) : i \in 1..Len(t.trees)}

\* a store that writes the file of the root tree whether it is there or
\* not
StoreTreeAlways(t, present) ==
    [present |-> present \cup AllTrees(t), wrote |-> <<t>>, isNew |-> TRUE]

RECURSIVE StoreTreeFile(_, _)
RECURSIVE StoreChildren(_, _, _)

\* store_tree_file_impl, `for tree in tree.trees`: store each child tree
\* and keep its fingerprint
StoreChildren(ts, i, acc) ==
    IF i > Len(ts) THEN acc
    ELSE LET r == StoreTreeFile(ts[i], acc.present)
         IN  StoreChildren(ts, i + 1,
                           [present |-> r.present, wrote |-> acc.wrote \o r.wrote])

\* store_tree_file_impl on trees/ holding the files present: after the
\* child trees, the file of the tree is written when it does not exist;
\* wrote lists the files written, in the order of the writes, isNew is
\* the flag returned
StoreTreeFile(t, present) ==
    LET below == StoreChildren(t.trees, 1, [present |-> present, wrote |-> <<>>])
        isNew == t \notin below.present
    IN  [present |-> IF isNew THEN below.present \cup {t} ELSE below.present,
         wrote |-> IF isNew THEN Append(below.wrote, t) ELSE below.wrote,
         isNew |-> isNew]

\* the result of a reconciliation so far: ok is FALSE once a step failed,
\* d is the directory, writes counts the entries created, overwritten or
\* removed, del is should_be_del
Recon(ok, d, writes, del) == [ok |-> ok, d |-> d, writes |-> writes, del |-> del]

\* a reconciliation that leaves the child trees out
SkipTrees(s, ts, i, acc) == acc

RECURSIVE CheckoutTree(_, _, _)
RECURSIVE TreesLoop(_, _, _, _)

\* checkout_tree, `for tree in &tree.trees`: read the child tree; create
\* its directory when nothing is there; when a file is there remove it
\* (nothing is created in its place, so read_dir fails in the recursion);
\* recurse
TreesLoop(s, ts, i, acc) ==
    IF i > Len(ts) \/ ~acc.ok THEN acc
    ELSE LET c == ts[i]
             exists == Has(acc.d, c.name)
             isDir == exists /\ EntryAt(acc.d, c.name).dir
             d1 == IF ~exists THEN Put(acc.d, Dir(c.name, <<>>))
                   ELSE IF ~isDir THEN Remove(acc.d, c.name)
                   ELSE acc.d
             w1 == acc.writes + (IF isDir THEN 0 ELSE 1)
             del1 == acc.del \ {c.name}
         IN  IF ~TreeExists(s, c) THEN [acc EXCEPT !.ok = FALSE]
             ELSE IF exists /\ ~isDir THEN Recon(FALSE, d1, w1, del1)
             ELSE LET r == CheckoutTree(s, c, EntryAt(d1, c.name).sub)
                  IN  TreesLoop(s, ts, i + 1,
                                Recon(r.ok, Put(d1, Dir(c.name, r.d)),
                                      w1 + r.writes, del1))

\* checkout_tree, `for blob in &tree.blobs`: check the blob out when no
\* entry has its name or the checksum of the entry differs; the checksum
\* of a directory is a read error
RECURSIVE BlobsLoop(_, _, _, _)
BlobsLoop(s, bs, i, acc) ==
    IF i > Len(bs) \/ ~acc.ok THEN acc
    ELSE LET b == bs[i]
             exists == Has(acc.d, b.name)
             out == CheckoutBlobFile(s, b.hash)
             del1 == acc.del \ {b.name}
         IN  IF exists /\ EntryAt(acc.d, b.name).dir THEN [acc EXCEPT !.ok = FALSE]
             ELSE IF exists /\ Checksum(b.hash, EntryAt(acc.d, b.name).data)
             THEN BlobsLoop(s, bs, i + 1, [acc EXCEPT !.del = del1])
             ELSE IF ~out.ok THEN [acc EXCEPT !.ok = FALSE]
             ELSE BlobsLoop(s, bs, i + 1,
                            Recon(TRUE, Put(acc.d, File(b.name, out.data)),
                                  acc.writes + 1, del1))

\* a loop that removes every leftover entry
SparedByName(e, del) == e.name \notin del

\* an entry that `for entry in should_be_del` leaves in place
Spared(e, del) == e.name \notin del \/ (e.dir /\ e.name = DotWsvc)

\* checkout_tree, `for entry in should_be_del`: remove_dir_all unless the
\* directory is named `.wsvc`, remove_file otherwise
DeleteLoop(acc) ==
    Recon(TRUE, SelectSeq(acc.d, LAMBDA e : Spared(e, acc.del)),
          acc.writes + Len(SelectSeq(acc.d, LAMBDA e : ~Spared(e, acc.del))), {})

\* checkout_tree(tree, workspace) on the directory d
CheckoutTree(s, tree, d) ==
    LET start == Recon(TRUE, d, 0, EntryNames(d))
        afterTrees == TreesLoop(s, tree.trees, 1, start)
        afterBlobs == BlobsLoop(s, tree.blobs, 1, afterTrees)
    IN  IF afterBlobs.ok THEN DeleteLoop(afterBlobs) ELSE afterBlobs

\* a record with the author in the place of the message
SwappedRecord(message, author, date, root) ==
    [message |-> author, author |-> message, date |-> date, root |-> root]

\* model::Record without its hash
NewRecord(message, author, date, root) ==
    [message |-> message, author |-> author, date |-> date, root |-> root]

EmptyHead == <<>>
HeadOf(r) == <<r>>

\* a search that finds nothing
NoRecordForTree(s, t) == {}

\* a search that takes any record for a match
AnyRecordForTree(s, t) == records[s]

\* find_record_for_tree: the records whose root has the fingerprint;
\* the first of them in the order read_dir lists records/ is returned
RecordsForTree(s, t) == {r \in records[s] : r.root = t}

\* The workspaces of the model.  100 is d, 102 is f, 103 is g,
\* 104 is h.  The third has a directory d with a file named `.wsvc`, a
\* file longer than a stored chunk and an empty file, and an empty
\* directory w; in the fourth d is a file and f a directory, and `.wsvc`
\* directories lie at the root and in f.
WorkDirs ==
    { <<>>,
      <<File(102, <<1>>)>>,
      <<Dir(100, <<File(DotWsvc, <<2>>), File(103, <<1, 2, 1>>), File(104, <<>>)>>),
        File(102, <<2>>),
        Dir(119, <<>>)>>,
      <<Dir(DotWsvc, <<File(102, <<1>>)>>),
        File(100, <<1>>),
        Dir(102, <<Dir(DotWsvc, <<File(102, <<2>>)>>), File(102, <<2, 1>>)>>)>> }

\* work_dir.file_name().unwrap_or("."): the last component of the
\* workspace path; "." (46) for the path `.`, w (119) for a path that
\* ends in that name
Bases == {46, 119}

Authors == {"ann"}
Messages == {"m"}

\* Successful commits the model follows; it bounds the clock.
MaxCommits == 2

EmptyStore == [objects |-> NoFiles, trees |-> {}, records |-> {}, head |-> <<>>]

\* what the last operation was and did: its result (NoChanges carries
\* rec), the workspace it started from, the number of workspace entries
\* it created, overwrote or removed; again tells that it repeats the
\* operation before it, and store is then the store it started from;
\* wrote and isNew are what a commit's write_tree_recursively wrote to
\* trees/ and returned
LastOf(op, ok, rec, writes, author, message, again) ==
    [op |-> op, ok |-> ok, rec |-> rec, writes |-> writes,
     author |-> author, message |-> message, before |-> fin.ws,
     again |-> again, store |-> IF again THEN Snapshot("R") ELSE EmptyStore,
     wrote |-> <<>>, isNew |-> FALSE]

\* the user's own steps leave nothing to remember
Idle ==
    [op |-> "user", ok |-> TRUE, rec |-> <<>>, writes |-> 0, author |-> "",
     message |-> "", before |-> <<>>, again |-> FALSE, store |-> EmptyStore,
     wrote |-> <<>>, isNew |-> FALSE]

notWork == <<chan, open, pc, rx, lockFile, loc, kind, hist>>

\* cli commit: repo.commit_record(workspace, author, message)
WorkCommit(author, message) ==
    LET tree == BuildTree(fin.base, fin.ws)
        stored == StoreTreeFile(tree, trees["R"])
        isNew == stored.isNew
        found == RecordsForTree("R", tree)
        record == NewRecord(message, author, fin.now, tree)
        again == fin.last.op = "commit" /\ fin.last.ok
    IN  /\ objects' = [objects EXCEPT !["R"] = BlobFiles(fin.ws) @@ @]
        /\ trees' = [trees EXCEPT !["R"] = stored.present]
        /\ IF ~isNew /\ found # {}
           THEN /\ \E r \in found :
                      fin' = [fin EXCEPT
                                 !.last = [LastOf("commit", FALSE, HeadOf(r), 0,
                                                  author, message, again)
                                               EXCEPT !.wrote = stored.wrote,
                                                      !.isNew = isNew]]
                /\ UNCHANGED <<records, head>>
           ELSE /\ fin.now <= MaxCommits
                /\ records' = [records EXCEPT !["R"] = @ \cup {record}]
                /\ head' = [head EXCEPT !["R"] = HeadOf(record)]
                /\ fin' = [fin EXCEPT
                              !.last = [LastOf("commit", TRUE, HeadOf(record), 0,
                                               author, message, again)
                                            EXCEPT !.wrote = stored.wrote,
                                                   !.isNew = isNew],
                              !.now = @ + 1,
                              !.log = Append(@, [rec |-> record, ws |-> fin.ws,
                                                 base |-> fin.base])]
        /\ UNCHANGED <<temp, notWork>>

\* a checkout_record that writes HEAD before it reconciles the workspace
WorkCheckoutHeadFirst(r) ==
    LET out == IF TreeExists("R", r.root) THEN CheckoutTree("R", r.root, fin.ws)
               ELSE Recon(FALSE, fin.ws, 0, {})
    IN  /\ r \in records["R"]
        /\ fin' = [fin EXCEPT
                      !.ws = out.d,
                      !.last = LastOf("checkout", out.ok, HeadOf(r), out.writes, "", "",
                                      fin.last.op = "checkout"
                                          /\ fin.last.rec = HeadOf(r))]
        /\ head' = [head EXCEPT !["R"] = HeadOf(r)]
        /\ IF out.ok THEN temp' = [temp EXCEPT !["R"] = NoFiles] ELSE UNCHANGED temp
        /\ UNCHANGED <<objects, trees, records, notWork>>

\* repo.checkout_record(record_hash, workspace): reconcile the workspace
\* with the root tree, then write HEAD and remove temp/
WorkCheckout(r) ==
    LET out == IF TreeExists("R", r.root) THEN CheckoutTree("R", r.root, fin.ws)
               ELSE Recon(FALSE, fin.ws, 0, {})
    IN  /\ r \in records["R"]
        /\ fin' = [fin EXCEPT
                      !.ws = out.d,
                      !.last = LastOf("checkout", out.ok, HeadOf(r), out.writes, "", "",
                                      fin.last.op = "checkout"
                                          /\ fin.last.rec = HeadOf(r))]
        /\ IF out.ok
           THEN /\ head' = [head EXCEPT !["R"] = HeadOf(r)]
                /\ temp' = [temp EXCEPT !["R"] = NoFiles]
           ELSE UNCHANGED <<head, temp>>
        /\ UNCHANGED <<objects, trees, records, notWork>>

\* The user changes the files of the workspace, or turns to another
\* directory.
WorkEdit(w) ==
    /\ w # fin.ws
    /\ fin' = [fin EXCEPT !.ws = w, !.last = Idle]
    /\ UNCHANGED <<temp, storeVars, notWork>>

\* The workspace directory is renamed or moved, or its path is given
\* another way (`.` instead of its full path).
WorkMove(b) ==
    /\ b # fin.base
    /\ fin' = [fin EXCEPT !.base = b, !.last = Idle]
    /\ UNCHANGED <<temp, storeVars, notWork>>

\* Repository::new has created an empty store with an empty HEAD.
WorkInit ==
    /\ chan = [s \in Sides |-> <<>>]
    /\ open = TRUE
    /\ pc = [s \in Sides |-> "idle"]
    /\ rx = [s \in Sides |-> RxIdle]
    /\ temp = [s \in Sides |-> NoFiles]
    /\ lockFile = [s \in Sides |-> None]
    /\ loc = [s \in Sides |-> LocInit]
    /\ hist = [s \in Sides |-> HistInit]
    /\ kind = [s \in Sides |-> "wsvc"]
    /\ head = [s \in Sides |-> EmptyHead]
    /\ records = [s \in Sides |-> {}]
    /\ trees = [s \in Sides |-> {}]
    /\ objects = [s \in Sides |-> NoFiles]
    /\ \E w \in WorkDirs, b \in Bases :
          fin = [mode |-> "work", ws |-> w, base |-> b, now |-> 1, log |-> <<>>,
                 last |-> Idle]

WorkNext ==
    \/ \E a \in Authors, m \in Messages : WorkCommit(a, m)
    \/ \E r \in records["R"] : WorkCheckout(r)
    \/ \E w \in WorkDirs : WorkEdit(w)
    \/ \E b \in Bases : WorkMove(b)

SpecWork == WorkInit /\ [][WorkNext]_vars

---------------------------------------------------------------------------
(* Claims about commit and checkout.                                       *)

\* the contents of the files commit walks: every file outside the
\* directories named `.wsvc`
RECURSIVE FilesIn(_)
FilesIn(d) ==
    UNION {IF d[i].dir
           THEN IF d[i].name = DotWsvc THEN {} ELSE FilesIn(d[i].sub)
           ELSE {d[i].data} : i \in 1..Len(d)}

Committed == fin.last.op = "commit"

\* C11: after a commit, every file of the workspace, whatever its length,
\* has in objects/ a file named by the fingerprint of its bytes whose
\* stored form decodes to exactly those bytes.
C11_CodecRoundTrip ==
    Committed =>
        \A B \in FilesIn(fin.ws) :
            /\ Fingerprint(B) \in Files(objects["R"])
            /\ ReadStored(objects["R"][Fingerprint(B)]) = [ok |-> TRUE, data |-> B]

\* a commit stored an empty file and a file of several chunks whose last
\* chunk is short
C11_Witness ==
    /\ Committed
    /\ <<>> \in FilesIn(fin.ws)
    /\ \E B \in FilesIn(fin.ws) :
          /\ Len(B) > StoreChunk /\ Len(B) % StoreChunk # 0
          /\ Len(objects["R"][Fingerprint(B)]) > Len(B)

\* the operation before the last one was a successful commit, and nothing
\* happened between the two
CommittedAgain == Committed /\ fin.last.again

RECURSIVE Visible(_)
Visible(d) ==
    LET kept == SelectSeq(d, LAMBDA e : ~(e.dir /\ e.name = DotWsvc))
    IN  [i \in 1..Len(kept) |->
            IF kept[i].dir THEN Dir(kept[i].name, Visible(kept[i].sub)) ELSE kept[i]]

CheckedOut == fin.last.op = "checkout" /\ fin.last.ok

\* the workspaces from which commit produced the record that the last
\* operation names
SourcesOf(rec) ==
    {fin.log[i].ws : i \in {j \in 1..Len(fin.log) : HeadOf(fin.log[j].rec) = rec}}

\* C13: after a successful checkout of a record into an empty directory,
\* the directory has exactly the directories, the file names and the file
\* bytes of the workspace the record was committed from, its `.wsvc`
\* directories left out.
C13_RoundTrip ==
    (CheckedOut /\ fin.last.before = <<>>) =>
        /\ SourcesOf(fin.last.rec) # {}
        /\ \A W \in SourcesOf(fin.last.rec) : fin.ws = Visible(W)

\* the checkout into the empty directory restored a sub-directory with
\* files, an empty directory and an empty file
C13_Witness ==
    /\ CheckedOut /\ fin.last.before = <<>>
    /\ \E i \in 1..Len(fin.ws) : fin.ws[i].dir /\ fin.ws[i].sub = <<>>
    /\ \E i \in 1..Len(fin.ws) :
          /\ fin.ws[i].dir
          /\ \E j \in 1..Len(fin.ws[i].sub) :
                ~fin.ws[i].sub[j].dir /\ fin.ws[i].sub[j].data = <<>>

RECURSIVE PutAll(_, _)
PutAll(d, es) == IF es = <<>> THEN d ELSE PutAll(Put(d, Head(es)), Tail(es))

\* the directory a tree describes: its blobs as files, its child trees as
\* directories
RECURSIVE TreeAsDir(_)
TreeAsDir(t) ==
    PutAll(PutAll(<<>>, [i \in 1..Len(t.blobs) |->
                            File(t.blobs[i].name, BlobContent(t.blobs[i].hash))]),
           [i \in 1..Len(t.trees) |-> Dir(t.trees[i].name, TreeAsDir(t.trees[i]))])

\* C14: after a successful checkout of a record into any workspace, the
\* workspace outside its `.wsvc` directories is exactly what the record
\* describes: files and directories the record does not have are gone,
\* files whose bytes differed have the record's bytes.
C14_Destructive ==
    CheckedOut => Visible(fin.ws) = TreeAsDir(fin.last.rec[1].root)

\* the checkout overwrote a file whose bytes differed and removed a
\* directory the record does not have
C14_Witness ==
    /\ CheckedOut
    /\ \E i \in 1..Len(fin.last.before) :
          LET e == fin.last.before[i]
          IN  ~e.dir /\ Has(fin.ws, e.name) /\ ~EntryAt(fin.ws, e.name).dir
                     /\ EntryAt(fin.ws, e.name).data # e.data
    /\ \E i \in 1..Len(fin.last.before) :
          LET e == fin.last.before[i]
          IN  e.dir /\ e.name # DotWsvc /\ ~Has(fin.ws, e.name)

\* the last two operations were checkouts of the same record, with
\* nothing between them
CheckedOutAgain == fin.last.op = "checkout" /\ fin.last.again

\* C15: the second of two checkouts of the same record in a row creates,
\* overwrites and removes no entry of the workspace, and leaves the
\* workspace and HEAD as the first checkout left them.
C15_Idempotent ==
    CheckedOutAgain =>
        /\ fin.last.writes = 0
        /\ fin.ws = fin.last.before
        /\ head["R"] = fin.last.store.head

\* C16: two commits of workspaces with the same contents, walked in the
\* same order, give the same root tree fingerprint, whatever the path of
\* the workspace directory.
C16_HashDeterminism ==
    \A i, j \in 1..Len(fin.log) :
        Visible(fin.log[i].ws) = Visible(fin.log[j].ws)
            => fin.log[i].rec.root = fin.log[j].rec.root

\* C20: after a successful commit, records/ holds the record returned,
\* with the author and the message given; its root is the fingerprint of
\* a tree of trees/ that has the name and the contents of the workspace;
\* HEAD is the fingerprint of the record.
C20_CommitPost ==
    (Committed /\ fin.last.ok) =>
        LET R == fin.last.rec[1]
        IN  /\ R \in records["R"]
            /\ R.author = fin.last.author /\ R.message = fin.last.message
            /\ TreeExists("R", R.root)
            /\ R.root.name = fin.base
            /\ TreeAsDir(R.root) = Visible(fin.ws)
            /\ head["R"] = HeadOf(R)

\* the second successful commit, of a workspace with a sub-directory,
\* replaced the HEAD the first one wrote
C20_Witness ==
    /\ Committed /\ fin.last.ok
    /\ Len(fin.log) = 2
    /\ \E i \in 1..Len(fin.ws) : fin.ws[i].dir /\ fin.ws[i].name # DotWsvc
    /\ head["R"] # HeadOf(fin.log[1].rec)

---------------------------------------------------------------------------
(* Further claims about the sync session.                                  *)

\* C17: a sync run that has returned, on either side, leaves HEAD with the
\* value it had when the session took the lock.
C17_HeadUnchanged ==
    \A s \in Sides :
        (kind[s] = "wsvc" /\ Returned(s) /\ hist[s].locked)
            => head[s] = hist[s].start.head

\* C19: no side is ever caught in a receive loop that cannot end: when the
\* connection is down and nothing is left to read, the side that waits in
\* recv_data has returned an error.
C19_ErrorsFatal ==
    \A s \in Sides : kind[s] = "wsvc" => rx[s].phase # "pkt_spin"

\* C18: in a sync run after a sync that succeeded on both sides, with no
\* commit in between, neither side puts a blob payload on the channel, and
\* the objects, trees and records of a side that took the lock stay what
\* they were when it took it.
C18_SyncIdempotent ==
    fin.run > 1 =>
        \A s \in Sides :
            /\ hist[s].sent = {}
            /\ hist[s].locked =>
                  /\ objects[s] = hist[s].start.objects
                  /\ trees[s] = hist[s].start.trees
                  /\ records[s] = hist[s].start.records

\* the second run has ended on both sides, after a first run that moved
\* blobs
C18_Witness ==
    /\ fin.run > 1 /\ fin.moved
    /\ \A s \in Sides : pc[s] = "done" /\ hist[s].locked

---------------------------------------------------------------------------
(* Further claims about commit and checkout.                               *)

\* the names of the child trees of the root of the record rec for which
\* the directory d has an entry that is not a directory
FilesOverTrees(rec, d) ==
    {rec[1].root.trees[i].name : i \in 1..Len(rec[1].root.trees)}
        \cap {d[i].name : i \in {j \in 1..Len(d) : ~d[j].dir}}

\* C25: a checkout into a workspace where a file stands under the name of
\* a child tree of the record's root succeeds, and afterwards that name is
\* a directory holding what the child tree describes.
C25_FileReplaced ==
    (fin.last.op = "checkout" /\ FilesOverTrees(fin.last.rec, fin.last.before) # {}) =>
        /\ fin.last.ok
        /\ \A n \in FilesOverTrees(fin.last.rec, fin.last.before) :
              Has(fin.ws, n) /\ EntryAt(fin.ws, n).dir

\* the names of the child trees and of the blobs of a tree
NamesOf(t) ==
    {t.trees[i].name : i \in 1..Len(t.trees)} \cup {t.blobs[i].name : i \in 1..Len(t.blobs)}

HasDotWsvcDir(d) == Has(d, DotWsvc) /\ EntryAt(d, DotWsvc).dir

\* in the directory and in every directory below it that the tree t has a
\* child tree for, a directory named `.wsvc` of which t knows nothing is
\* still there with everything in it
RECURSIVE Kept(_, _, _)
Kept(before, after, t) ==
    /\ (HasDotWsvcDir(before) /\ DotWsvc \notin NamesOf(t)) =>
          /\ Has(after, DotWsvc)
          /\ EntryAt(after, DotWsvc) = EntryAt(before, DotWsvc)
    /\ \A i \in 1..Len(t.trees) :
          LET n == t.trees[i].name
          IN  (Has(before, n) /\ EntryAt(before, n).dir /\ Has(after, n)) =>
                  /\ EntryAt(after, n).dir
                  /\ Kept(EntryAt(before, n).sub, EntryAt(after, n).sub, t.trees[i])

\* nothing is left in the directory, or in a directory below it, that the
\* tree does not name, but directories named `.wsvc`
RECURSIVE Cleaned(_, _)
Cleaned(after, t) ==
    /\ \A i \in 1..Len(after) :
          after[i].name \in NamesOf(t) \/ (after[i].dir /\ after[i].name = DotWsvc)
    /\ \A i \in 1..Len(t.trees) :
          Has(after, t.trees[i].name) =>
              Cleaned(EntryAt(after, t.trees[i].name).sub, t.trees[i])

\* C26: a checkout, successful or not, leaves every directory named
\* `.wsvc` that is a direct child of a reconciled directory and is not
\* named by the target tree in place with its content untouched; a
\* successful checkout removes every other leftover directory and file.
C26_StorageKept ==
    fin.last.op = "checkout" =>
        /\ Kept(fin.last.before, fin.ws, fin.last.rec[1].root)
        /\ fin.last.ok => Cleaned(fin.ws, fin.last.rec[1].root)

\* a checkout removed a leftover file and a leftover directory that had a
\* `.wsvc` directory in it, and left the `.wsvc` directory of the
\* workspace, which holds a file the tree does not name
C26_Witness ==
    /\ CheckedOut
    /\ HasDotWsvcDir(fin.last.before) /\ HasDotWsvcDir(fin.ws)
    /\ EntryAt(fin.ws, DotWsvc).sub # <<>>
    /\ \E i \in 1..Len(fin.last.before) :
          /\ fin.last.before[i].dir
          /\ HasDotWsvcDir(fin.last.before[i].sub)
          /\ ~Has(fin.ws, fin.last.before[i].name)
    /\ \E i \in 1..Len(fin.last.before) :
          ~fin.last.before[i].dir /\ ~Has(fin.ws, fin.last.before[i].name)

NoTreeNamedDotWsvc ==
    \A t \in trees["R"] : \A i \in 1..Len(t.trees) : t.trees[i].name # DotWsvc

\* C27: no tree that commit has written to trees/ has a child tree or a
\* blob entry named `.wsvc`.
C27_WalkExclusion ==
    /\ NoTreeNamedDotWsvc
    /\ \A t \in trees["R"] : \A i \in 1..Len(t.blobs) : t.blobs[i].name # DotWsvc

\* C29: in every commit, write_tree_recursively writes to trees/ only
\* files that were absent, each once and after the files of its child
\* trees; afterwards trees/ holds what it held and the tree of the
\* workspace with every tree below it, and the flag returned is true
\* exactly when the file of the root tree was absent before.
C29_PutTreeDedup ==
    [][fin'.last.op = "commit" =>
          LET W == fin'.last.wrote
              root == BuildTree(fin.base, fin.ws)
          IN  /\ \A i \in 1..Len(W) : W[i] \notin trees["R"]
              /\ \A i, j \in 1..Len(W) : W[i] = W[j] => i = j
              /\ \A i \in 1..Len(W) : \A k \in 1..Len(W[i].trees) :
                    \/ W[i].trees[k] \in trees["R"]
                    \/ \E j \in 1..(i - 1) : W[j] = W[i].trees[k]
              /\ trees'["R"] = trees["R"] \cup AllTrees(root)
              /\ {W[i] : i \in 1..Len(W)} = AllTrees(root) \ trees["R"]
              /\ fin'.last.isNew <=> root \notin trees["R"]]_vars

\* a commit wrote the root tree after a child tree, and did not write
\* another child tree whose file was there already
C29_Witness ==
    /\ Committed /\ fin.last.isNew
    /\ Len(fin.last.wrote) > 1
    /\ Len(fin.last.wrote) < Cardinality(AllTrees(BuildTree(fin.base, fin.ws)))

\* the records that were stored before the last commit
RecordsBefore ==
    IF fin.last.ok THEN records["R"] \ {fin.last.rec[1]} ELSE records["R"]

\* C28: a commit fails with NoChanges only when the root tree was in
\* trees/ before and the record it names is stored and has that tree for
\* root; when no record stored before has the tree of the workspace for
\* root, the commit succeeds and its record is stored, also when the file
\* of the root tree was there already.
C28_GenuineDuplicate ==
    Committed =>
        LET root == BuildTree(fin.base, fin.ws)
        IN  /\ ~fin.last.ok =>
                  /\ ~fin.last.isNew
                  /\ fin.last.rec[1] \in records["R"]
                  /\ fin.last.rec[1].root = root
            /\ (\A r \in RecordsBefore : r.root # root) =>
                  /\ fin.last.ok
                  /\ fin.last.rec[1] \in records["R"]
                  /\ fin.last.rec[1].root = root

\* a commit succeeded although the file of its root tree was there: it
\* had been written as a child tree of another commit
C28_Witness ==
    /\ Committed /\ fin.last.ok /\ ~fin.last.isNew
    /\ \A r \in RecordsBefore : r.root # BuildTree(fin.base, fin.ws)

---------------------------------------------------------------------------
(* Claims about the latest record, clone and the order of round 4.         *)

\* C24: get_latest_record gives the same record whatever the order in
\* which records/ is listed: the Initiator of a second sync run, whose
\* records are those the first run left, ends with the HEAD the first run
\* wrote.
C24_LatestDeterministic ==
    (fin.run > 1 /\ kind["I"] = "wsvc" /\ pc["I"] = "done" /\ hist["I"].locked) =>
        /\ records["I"] = hist["I"].start.records
        /\ head["I"] = hist["I"].start.head

\* clone: the Initiator's store was the one Repository::new creates when
\* it took the lock, in the first run
Cloning ==
    /\ fin.run = 1 /\ kind["I"] = "wsvc" /\ hist["I"].locked
    /\ hist["I"].start = [objects |-> NoFiles, trees |-> {}, records |-> {},
                          head |-> None]

\* C21: a clone whose sync_impl returned Ok fails, with HEAD still
\* empty, when records/ is empty; when it succeeds, HEAD holds a record
\* of records/ than which no record of records/ has a later date.
C21_CloneLatest ==
    (Cloning /\ hist["I"].at = "latest") =>
        IF records["I"] = {}
        THEN pc["I"] = "failed" /\ head["I"] = None
        ELSE pc["I"] = "done" =>
                /\ head["I"] \in records["I"]
                /\ \A r \in records["I"] :
                      RecordOf(r).date <= RecordOf(head["I"]).date

\* a clone received records of two dates and checked the later one out
C21_Witness ==
    /\ Cloning /\ hist["I"].at = "latest" /\ pc["I"] = "done"
    /\ \E r \in records["I"] : RecordOf(r).date < RecordOf(head["I"]).date

\* C30: once the Initiator has put a blob payload on the channel, the
\* Responder has sent every blob the Initiator wants, the Initiator has
\* the file of each of them, and no message from the Responder is waiting
\* on the channel: no file frame of the Initiator is on the channel
\* together with a file frame of the Responder.
C30_HalfDuplex ==
    hist["I"].sent # {} =>
        /\ \A j \in 1..Len(loc["I"].wb) :
              /\ loc["I"].wb[j].hash \in hist["R"].sent
              /\ FpHex(loc["I"].wb[j].hash) \in Files(temp["I"]) \cup Files(objects["I"])
        /\ chan["I"] = <<>>

\* blobs went both ways: the Initiator has sent one after it received what
\* it wanted, and the frame it sent is still on the channel
C30_Witness ==
    /\ hist["I"].sent # {} /\ hist["R"].sent # {}
    /\ Len(loc["I"].wb) > 0
    /\ kind["I"] = "wsvc"
    /\ chan["R"] # <<>>

---------------------------------------------------------------------------
(* Repository::new and Repository::open.  A path p is given with the flag  *)
(* is_bare: the root is p itself when bare, p/.wsvc otherwise.  fin.fs is  *)
(* the part of the file system they look at: whether p and p/.wsvc exist,  *)
(* which of objects, trees, records and HEAD exist in each, and what each  *)
(* HEAD holds (<<>> when empty).  fin.last is the last call and fin.prev   *)
(* tells what the operation before it was.                                 *)

RepoEntries == <<"objects", "trees", "records", "HEAD">>

NoRoot == [exists |-> FALSE, entries |-> {}, head |-> <<>>]

\* the root of the repository at the path: path.join(".wsvc") unless bare
RootOf(bare) == IF bare THEN "p" ELSE "w"

\* an open that looks at the root only
OpenIfRoot(fs, bare) == fs[RootOf(bare)].exists

\* Repository::open returns Ok: the root exists, and objects, trees,
\* records and HEAD exist in it
OpenOk(fs, bare) ==
    /\ fs[RootOf(bare)].exists
    /\ \A i \in 1..Len(RepoEntries) : RepoEntries[i] \in fs[RootOf(bare)].entries

\* Repository::new on a root that does not exist: create_dir_all of
\* objects, trees, records, then write(HEAD, ""), each followed by `?`;
\* failAt is the step that returns an error (0: none).  create_dir_all
\* makes the missing directories above, p included.  An error at the
\* first step leaves nothing behind.
Created(fs, bare, failAt) ==
    LET n == IF failAt = 0 THEN Len(RepoEntries) ELSE failAt - 1
        root == [exists |-> TRUE, entries |-> {RepoEntries[i] : i \in 1..n},
                 head |-> <<>>]
    IN  IF n = 0 THEN fs
        ELSE IF bare THEN [fs EXCEPT !["p"] = root]
        ELSE [fs EXCEPT !["w"] = root, !["p"].exists = TRUE]

RepoCall(op, bare, ok, err) ==
    [op |-> op, bare |-> bare, ok |-> ok, err |-> err, before |-> fin.fs]

\* what is kept of the operation before the last one
Brief(call) == [op |-> call.op, bare |-> call.bare, ok |-> call.ok]

RepoIdle == [op |-> "user", bare |-> FALSE, ok |-> TRUE, err |-> "",
             before |-> [r \in {"p", "w"} |-> NoRoot]]

notRepoFs == <<chan, open, pc, rx, temp, lockFile, objects, trees, records, head,
               loc, kind, hist>>

\* Repository::new(path, is_bare)
RepoNew(bare, failAt) ==
    /\ IF fin.fs[RootOf(bare)].exists
       THEN fin' = [fin EXCEPT !.last = RepoCall("new", bare, FALSE, "DirAlreadyExists"),
                               !.prev = Brief(fin.last)]
       ELSE fin' = [fin EXCEPT !.fs = Created(fin.fs, bare, failAt),
                               !.last = RepoCall("new", bare, failAt = 0,
                                                 IF failAt = 0 THEN "" ELSE "Os"),
                               !.prev = Brief(fin.last)]
    /\ UNCHANGED notRepoFs

\* Repository::open(path, is_bare)
RepoOpen(bare) ==
    /\ fin' = [fin EXCEPT !.last = RepoCall("open", bare, OpenOk(fin.fs, bare),
                                            IF OpenOk(fin.fs, bare) THEN ""
                                            ELSE "UnknownPath"),
                          !.prev = Brief(fin.last)]
    /\ UNCHANGED notRepoFs

\* commit_record or checkout_record on the repository opened at the
\* path: write(HEAD, fingerprint)
RepoWriteHead(bare) ==
    /\ OpenOk(fin.fs, bare)
    /\ fin' = [fin EXCEPT !.fs[RootOf(bare)].head = <<"r1">>,
                          !.last = RepoIdle, !.prev = Brief(fin.last)]
    /\ UNCHANGED notRepoFs

\* The user removes one of the four entries of a root, or a root with
\* all that is in it (p/.wsvc is in p), or makes the empty directory p.
UserRemoves(r, e) ==
    /\ e \in fin.fs[r].entries
    /\ fin' = [fin EXCEPT !.fs[r].entries = @ \ {e},
                          !.fs[r].head = IF e = "HEAD" THEN <<>> ELSE @,
                          !.last = RepoIdle, !.prev = Brief(fin.last)]
    /\ UNCHANGED notRepoFs

UserRemovesRoot(r) ==
    /\ fin.fs[r].exists
    /\ fin' = [fin EXCEPT !.fs = IF r = "p" THEN [x \in {"p", "w"} |-> NoRoot]
                                 ELSE [fin.fs EXCEPT !["w"] = NoRoot],
                          !.last = RepoIdle, !.prev = Brief(fin.last)]
    /\ UNCHANGED notRepoFs

UserMakesDir ==
    /\ ~fin.fs["p"].exists
    /\ fin' = [fin EXCEPT !.fs["p"].exists = TRUE,
                          !.last = RepoIdle, !.prev = Brief(fin.last)]
    /\ UNCHANGED notRepoFs

\* Nothing exists at the path.
RepoInit ==
    /\ chan = [s \in Sides |-> <<>>]
    /\ open = TRUE
    /\ pc = [s \in Sides |-> "idle"]
    /\ rx = [s \in Sides |-> RxIdle]
    /\ temp = [s \in Sides |-> NoFiles]
    /\ lockFile = [s \in Sides |-> None]
    /\ loc = [s \in Sides |-> LocInit]
    /\ hist = [s \in Sides |-> HistInit]
    /\ kind = [s \in Sides |-> "wsvc"]
    /\ head = [s \in Sides |-> EmptyHead]
    /\ records = [s \in Sides |-> {}]
    /\ trees = [s \in Sides |-> {}]
    /\ objects = [s \in Sides |-> NoFiles]
    /\ fin = [mode |-> "repo", fs |-> [r \in {"p", "w"} |-> NoRoot],
              last |-> RepoIdle, prev |-> Brief(RepoIdle)]

RepoNext ==
    \/ \E bare \in BOOLEAN, failAt \in 0..Len(RepoEntries) : RepoNew(bare, failAt)
    \/ \E bare \in BOOLEAN : RepoOpen(bare)
    \/ \E bare \in BOOLEAN : RepoWriteHead(bare)
    \/ \E r \in {"p", "w"}, e \in Range(RepoEntries) : UserRemoves(r, e)
    \/ \E r \in {"p", "w"} : UserRemovesRoot(r)
    \/ UserMakesDir

SpecRepo == RepoInit /\ [][RepoNext]_vars

\* C22: a create on a root that exists fails with DirAlreadyExists and
\* changes nothing; after a create that succeeded, open of the same path
\* with the same flag succeeds and HEAD is empty; an open that succeeded
\* found objects, trees, records and HEAD in the root.
C22_Lifecycle ==
    LET r == RootOf(fin.last.bare)
    IN  /\ (fin.last.op = "new" /\ fin.last.before[r].exists) =>
              /\ ~fin.last.ok /\ fin.last.err = "DirAlreadyExists"
              /\ fin.fs = fin.last.before
        /\ (fin.last.op = "new" /\ fin.last.ok) =>
              /\ OpenOk(fin.fs, fin.last.bare)
              /\ fin.fs[r].head = <<>>
        /\ (fin.last.op = "open" /\ fin.prev = Brief(RepoCall("new", fin.last.bare, TRUE, ""))) =>
              /\ fin.last.ok
              /\ fin.fs[r].head = <<>>
        /\ (fin.last.op = "open" /\ fin.last.ok) =>
              fin.fs[r].entries = Range(RepoEntries)

\* an open succeeded right after a create of p/.wsvc that succeeded, in
\* a directory p that holds a damaged bare repository
C22_Witness ==
    /\ fin.last.op = "open" /\ fin.last.ok /\ ~fin.last.bare
    /\ fin.prev = Brief(RepoCall("new", FALSE, TRUE, ""))
    /\ fin.fs["p"].entries # {} /\ ~OpenOk(fin.fs, TRUE)

---------------------------------------------------------------------------
(* The checkout command: `checkout [hash] [-w workspace] [-r root]` on the *)
(* repository of side "R" and the workspace fin.ws.  cli/checkout.rs reads *)
(* commit.auto_record from the configuration first; the checkout of        *)
(* cli/mod.rs reads no configuration and behaves as with auto_record off.  *)

\* hash.to_hex() of a stored record, as character codes: the first
\* characters of the fingerprint, which tell the records of one store
\* apart (their dates differ).  All begin with `a` (97); the second
\* character is the digit of the date.
RecHex(r) == <<97, 48 + r.date>>

\* a prefix taken as it was typed
AsTyped(q) == q

\* str::to_ascii_lowercase: A..Z (65..90) become a..z, the rest stays
ToAsciiLowercase(q) ==
    [i \in 1..Len(q) |-> IF q[i] \in 65..90 THEN q[i] + 32 ELSE q[i]]

\* str::starts_with
StartsWith(h, p) == Len(p) <= Len(h) /\ SubSeq(h, 1, Len(p)) = p

\* the records of the greatest date
LatestIn(recs) == {r \in recs : \A x \in recs : x.date <= r.date}

\* the hash argument: absent, or a prefix; A is 65, a 97, 0 48, 1 49,
\* 2 50.  The last prefix is longer than the characters modelled.
Prefixes == {<<>>, <<65>>, <<97, 49>>, <<65, 50>>, <<97, 50, 48>>}

CliArgs ==
    {[given |-> FALSE, prefix |-> <<>>]} \cup {[given |-> TRUE, prefix |-> q] : q \in Prefixes}

\* commit.auto_record: not configured, false, true
AutoRecord == {"unset", "off", "on"}

CliLast(ok, err, rec, arg, cfg, backup) ==
    [op |-> "cli", ok |-> ok, err |-> err, rec |-> rec, arg |-> arg, cfg |-> cfg,
     backup |-> backup, before |-> fin.ws]

\* cli checkout: with auto_record on, commit the workspace and ignore
\* the result; then take the records whose fingerprint starts with the
\* lowercased argument, or the latest record when there is no argument,
\* and check out the only one
CliCheckout(arg, cfg) ==
    LET tree == BuildTree(fin.base, fin.ws)
        stored == StoreTreeFile(tree, trees["R"])
        backup == NewRecord("auto backup by checkout", "ann BACKUP", fin.now, tree)
        commits == cfg = "on"
        committed == commits /\ (stored.isNew \/ RecordsForTree("R", tree) = {})
        recs == IF committed THEN records["R"] \cup {backup} ELSE records["R"]
        matching == IF arg.given
                    THEN {r \in recs : StartsWith(ToAsciiLowercase(RecHex(r)),
                                                  ToAsciiLowercase(arg.prefix))}
                    ELSE LatestIn(recs)
        attempt == IF arg.given THEN Cardinality(matching) = 1 ELSE matching # {}
    IN  IF cfg = "unset"
        THEN /\ fin' = [fin EXCEPT !.last = CliLast(FALSE, "NeedConfiguring", <<>>,
                                                    arg, cfg, FALSE)]
             /\ UNCHANGED <<temp, storeVars, notWork>>
        ELSE /\ committed => fin.now <= MaxCommits
             /\ objects' = [objects EXCEPT !["R"] =
                                IF commits THEN BlobFiles(fin.ws) @@ @ ELSE @]
             /\ trees' = [trees EXCEPT !["R"] = IF commits THEN stored.present ELSE @]
             /\ records' = [records EXCEPT !["R"] = recs]
             /\ IF attempt
                THEN \E r \in matching :
                        LET out == IF r.root \in trees'["R"]
                                   THEN CheckoutTree("R", r.root, fin.ws)
                                   ELSE Recon(FALSE, fin.ws, 0, {})
                        IN  /\ fin' = [fin EXCEPT
                                          !.ws = out.d,
                                          !.now = IF committed THEN @ + 1 ELSE @,
                                          !.last = CliLast(out.ok,
                                                           IF out.ok THEN "" ELSE "FsError",
                                                           HeadOf(r), arg, cfg, committed)]
                            /\ head' = [head EXCEPT !["R"] =
                                           IF out.ok THEN HeadOf(r)
                                           ELSE IF committed THEN HeadOf(backup) ELSE @]
                            /\ temp' = [temp EXCEPT !["R"] = IF out.ok THEN NoFiles ELSE @]
                ELSE /\ fin' = [fin EXCEPT
                                   !.now = IF committed THEN @ + 1 ELSE @,
                                   !.last = CliLast(FALSE, "BadUsage", <<>>, arg, cfg,
                                                    committed)]
                     /\ head' = [head EXCEPT !["R"] =
                                    IF committed THEN HeadOf(backup) ELSE @]
                     /\ UNCHANGED temp
             /\ UNCHANGED notWork

CliNext ==
    \/ \E a \in Authors, m \in Messages : WorkCommit(a, m)
    \/ \E w \in WorkDirs : WorkEdit(w)
    \/ \E arg \in CliArgs : CliCheckout(arg, fin.cfg)

\* The command is run in a workspace whose path ends in a name, on a
\* repository that Repository::new has created, with a configuration that
\* stays as it is.
CliInit ==
    /\ chan = [s \in Sides |-> <<>>]
    /\ open = TRUE
    /\ pc = [s \in Sides |-> "idle"]
    /\ rx = [s \in Sides |-> RxIdle]
    /\ temp = [s \in Sides |-> NoFiles]
    /\ lockFile = [s \in Sides |-> None]
    /\ loc = [s \in Sides |-> LocInit]
    /\ hist = [s \in Sides |-> HistInit]
    /\ kind = [s \in Sides |-> "wsvc"]
    /\ head = [s \in Sides |-> EmptyHead]
    /\ records = [s \in Sides |-> {}]
    /\ trees = [s \in Sides |-> {}]
    /\ objects = [s \in Sides |-> NoFiles]
    /\ \E w \in WorkDirs, cfg \in AutoRecord :
          fin = [mode |-> "cli", ws |-> w, base |-> 119, now |-> 1, log |-> <<>>,
                 last |-> Idle, cfg |-> cfg]

SpecCli == CliInit /\ [][CliNext]_vars

\* the stored records whose fingerprint begins with the characters of p,
\* letters compared without regard to case
Matches(p) ==
    {r \in records["R"] :
        /\ Len(p) <= Len(RecHex(r))
        /\ \A i \in 1..Len(p) :
              \/ p[i] = RecHex(r)[i]
              \/ p[i] \in 65..90 /\ p[i] + 32 = RecHex(r)[i]
              \/ p[i] \in 97..122 /\ p[i] - 32 = RecHex(r)[i]}

\* C23: a checkout command that got past its configuration checks a
\* record out only when exactly one stored record matches the prefix it
\* was given, and that record; with no match or several it fails with
\* BadUsage and the workspace is as it was; with no prefix it checks out
\* a record of the greatest date.
C23_PrefixCheckout ==
    (fin.last.op = "cli" /\ fin.last.cfg # "unset") =>
        IF fin.last.arg.given
        THEN IF Cardinality(Matches(fin.last.arg.prefix)) = 1
             THEN /\ fin.last.err # "BadUsage"
                  /\ fin.last.rec[1] \in Matches(fin.last.arg.prefix)
                  /\ fin.last.ok => head["R"] = fin.last.rec
             ELSE /\ fin.last.err = "BadUsage"
                  /\ fin.ws = fin.last.before
        ELSE IF records["R"] = {}
             THEN fin.last.err = "BadUsage" /\ fin.ws = fin.last.before
             ELSE /\ fin.last.err # "BadUsage"
                  /\ fin.last.rec[1] \in LatestIn(records["R"])

\* of two stored records that share their first character, the one that
\* matches a prefix typed with a capital letter was checked out into a
\* workspace that held something else
C23_Witness ==
    /\ fin.last.op = "cli" /\ fin.last.ok /\ fin.last.arg.given
    /\ \E i \in 1..Len(fin.last.arg.prefix) : fin.last.arg.prefix[i] \in 65..90
    /\ Cardinality(records["R"]) > 1
    /\ fin.ws # fin.last.before

---------------------------------------------------------------------------
(* Claims about the order of the rounds and about what the two sides      *)
(* agree on.                                                               *)

\* where side s is, or where it was when its session ended
Pos(s) == IF pc[s] \in Ended THEN hist[s].at ELSE pc[s]

\* the positions of sync_blobs and of what follows it
Round4Pcs == {"recv", "send", "move", "wtrees", "wrecords", "latest"}

\* how many of the lists of rounds 1 to 3 the Responder at position p has
\* sent: sync_records, sync_trees and sync_blobs_meta each begin with
\* send_data
ListsSent(p) ==
    IF p = "r_r1" THEN 1 ELSE IF p = "r_r2" THEN 2
    ELSE IF p = "r_r3" \/ p \in Round4Pcs THEN 3 ELSE 0

\* how many of the diffs of rounds 1 to 3 the Initiator at position p has
\* sent: each of its round functions ends with send_data
DiffsSent(p) ==
    IF p = "i_r2" THEN 1 ELSE IF p = "i_r3" THEN 2
    ELSE IF p \in Round4Pcs THEN 3 ELSE 0

\* the positions of a session in the order of the source
PcOrder(s) ==
    IF s = "I"
    THEN <<"start", "locking", "i_r1", "i_r2", "i_r3", "recv", "send",
           "move", "wtrees", "wrecords", "latest">>
    ELSE <<"start", "locking", "r_r1s", "r_r1", "r_r2", "r_r3", "send", "recv",
           "move", "wtrees", "wrecords">>

Sequenced ==
    /\ DiffsSent(Pos("I")) <= ListsSent(Pos("R"))
    /\ ListsSent(Pos("R")) <= DiffsSent(Pos("I")) + 1
    /\ Pos("R") \in Round4Pcs => DiffsSent(Pos("I")) = 3
    /\ hist["R"].sent # {} => Pos("I") \in Round4Pcs
    /\ hist["I"].sent # {} => ListsSent(Pos("R")) = 3
    /\ (Pos("R") \in {"r_r1s", "r_r1", "r_r2", "r_r3"}
          /\ DiffsSent(Pos("I")) < ListsSent(Pos("R"))) => chan["R"] = <<>>
    /\ (Pos("I") \in {"i_r1", "i_r2", "i_r3"}
          /\ ListsSent(Pos("R")) <= DiffsSent(Pos("I"))) => chan["I"] = <<>>

InOrder ==
    \A s \in Sides :
        (pc[s] \notin Ended /\ pc'[s] \notin Ended) =>
            Code(PcOrder(s), pc[s]) <= Code(PcOrder(s), pc'[s])

\* C31: each side goes through records, trees, blob metadata and blob
\* payloads in that order and never back; the Initiator has sent its diff
\* of round N only when the Responder has sent its list of round N, the
\* Responder has sent its list of round N+1, or a blob payload, only when
\* the Initiator has sent its diff of round N, or of round 3, and while a
\* side waits for an answer the other side has not sent yet, no message
\* for it is on the channel.
C31_RoundSequencing == []Sequenced /\ [][InOrder]_vars

\* both sides are in round 4 after three rounds in which the Initiator
\* asked for records and offered records
C31_Witness ==
    /\ pc["I"] = "recv" /\ pc["R"] = "send"
    /\ loc["I"].wr # <<>> /\ loc["I"].gr # <<>>
    /\ loc["R"].wr = loc["I"].wr
    /\ kind["I"] = "wsvc" /\ kind["R"] = "wsvc"

\* the Responder has decoded the diff of round n
Decoded(n) ==
    IF n = 3 THEN Pos("R") \in Round4Pcs ELSE ListsSent(Pos("R")) > n

Hashes(q) == {q[i].hash : i \in 1..Len(q)}

\* what the Responder filtered out of the diff of each round is what the
\* Initiator computed in that round
AgreedLists ==
    /\ Decoded(1) => (loc["R"].wr = loc["I"].wr /\ loc["R"].gr = loc["I"].gr)
    /\ Decoded(2) => (loc["R"].wt = loc["I"].wt /\ loc["R"].gt = loc["I"].gt)
    /\ Decoded(3) => (loc["R"].wb = loc["I"].wb /\ loc["R"].gb = loc["I"].gb)

\* no item is both wanted and offered
DisjointLists ==
    \A s \in Sides :
        /\ Range(loc[s].wr) \cap Range(loc[s].gr) = {}
        /\ Range(loc[s].wt) \cap Range(loc[s].gt) = {}
        /\ Hashes(loc[s].wb) \cap Hashes(loc[s].gb) = {}

\* what both stores held when the sessions took their locks is in no list
SharedInNeither ==
    (\A s \in Sides : hist[s].locked) =>
        \A s \in Sides :
            /\ \A r \in hist["I"].start.records \cap hist["R"].start.records :
                  r \notin Range(loc[s].wr) \cup Range(loc[s].gr)
            /\ \A t \in hist["I"].start.trees \cap hist["R"].start.trees :
                  t \notin Range(loc[s].wt) \cup Range(loc[s].gt)
            /\ \A b \in BlobIds :
                  FpHex(b) \in Files(hist["I"].start.objects)
                                  \cap Files(hist["R"].start.objects)
                      => b \notin Hashes(loc[s].wb) \cup Hashes(loc[s].gb)

\* in round 4 each side sends the blobs the other expects, and no others
SameTransfers ==
    /\ hist["R"].sent \subseteq Hashes(loc["I"].wb)
    /\ Decoded(3) => hist["I"].sent \subseteq Hashes(loc["R"].gb)
    /\ Decoded(3) => (Outgoing("R") = Incoming("I") /\ Incoming("R") = Outgoing("I"))

\* C32: after each round the wanted and the will-give list of the
\* Responder are those of the Initiator, no item is in both, an item both
\* stores held at the start is in neither, and in round 4 each side sends
\* what the other expects.
C32_Agreement == AgreedLists /\ DisjointLists /\ SharedInNeither /\ SameTransfers

---------------------------------------------------------------------------
(* Decoding one file of objects/: checkout_blob_file_impl and read_blob,   *)
(* one turn of their loop per step.  fin.stored is the file, fin.offset    *)
(* the read position, fin.hb the 4-byte header buffer, fin.out what was    *)
(* decoded so far (the temporary file of checkout_blob_file_impl, the      *)
(* result vector of read_blob), fin.target the workspace file the blob is  *)
(* checked out to, fin.end how the call ended.                             *)

\* let mut buffer: [u8; 32768]
BufferLen == 32768

\* the two length bytes a damaged header may hold: 0, 1, 255, 32768,
\* 32769 and 65535
DeclaredLens == {<<0, 0>>, <<0, 1>>, <<0, 255>>, <<128, 0>>, <<128, 1>>, <<255, 255>>}

\* the files of objects/ the model decodes: what store_blob_file_impl
\* writes for the contents of BlobList, and those files with one byte
\* changed, with the length of a chunk changed, or cut short
StoredFiles ==
    LET good == {StoredForm(BlobContent(b)) : b \in BlobIds}
    IN  good
        \cup UNION {{[f EXCEPT ![p] = v] : p \in 1..Len(f), v \in {0, 1, 120, 218}} : f \in good}
        \cup UNION {{[f EXCEPT ![p + 3] = l[1], ![p + 4] = l[2]] :
                        p \in {q \in {0, 7, 8} : q + 4 <= Len(f)}, l \in DeclaredLens} :
                    f \in good}
        \cup UNION {{SubSeq(f, 1, n) : n \in 0..Len(f)} : f \in good}

Decoders == {"checkout_blob_file", "read_blob"}

\* the workspace file before the call: absent, or holding other bytes
Targets == {[exists |-> FALSE, data |-> <<>>], [exists |-> TRUE, data |-> <<9>>]}

notDecode == <<chan, open, pc, rx, temp, lockFile, loc, kind, hist,
               objects, trees, records, head>>

\* &mut buffer[..size]: the slice exists when size is at most the length
\* of the buffer; the index panics otherwise
SliceOk(size) == size <= BufferLen

\* One turn of the loop with bytes left to read: file.read(header_buffer)
\* fills the first n bytes of the header buffer, the magic is compared,
\* the length computed, buffer[..size] sliced, file.read of the chunk,
\* n != size checked, the chunk decompressed and appended.
DecodeChunk ==
    /\ fin.end = "run"
    /\ fin.offset < Len(fin.stored)
    /\ LET left == Len(fin.stored) - fin.offset
           n == Min(4, left)
           hb == [i \in 1..4 |-> IF i <= n THEN fin.stored[fin.offset + i] ELSE fin.hb[i]]
           size == hb[3] * 256 + hb[4]
           got == Min(size, left - n)
           z == Inflate(SubSeq(fin.stored, fin.offset + n + 1, fin.offset + n + got))
       IN  fin' = IF hb[1] # 120 \/ hb[2] # 218
                  THEN [fin EXCEPT !.hb = hb, !.end = "DecompressFailed"]
                  ELSE IF ~SliceOk(size)
                  THEN [fin EXCEPT !.hb = hb, !.end = "panicked"]
                  ELSE IF got # size \/ ~z.ok
                  THEN [fin EXCEPT !.hb = hb, !.end = "DecompressFailed"]
                  ELSE [fin EXCEPT !.hb = hb, !.offset = @ + n + got,
                                   !.out = @ \o z.data]
    /\ UNCHANGED notDecode

\* The turn that reads 0 bytes: the loop ends;
\* checkout_blob_file_impl renames its temporary file to the path,
\* read_blob returns the vector.
DecodeEnd ==
    /\ fin.end = "run"
    /\ fin.offset >= Len(fin.stored)
    /\ fin' = [fin EXCEPT !.end = "ok",
                          !.target = IF fin.which = "checkout_blob_file"
                                     THEN [exists |-> TRUE, data |-> fin.out]
                                     ELSE @]
    /\ UNCHANGED notDecode

DecodeInit ==
    /\ chan = [s \in Sides |-> <<>>]
    /\ open = TRUE
    /\ pc = [s \in Sides |-> "idle"]
    /\ rx = [s \in Sides |-> RxIdle]
    /\ temp = [s \in Sides |-> NoFiles]
    /\ lockFile = [s \in Sides |-> None]
    /\ loc = [s \in Sides |-> LocInit]
    /\ hist = [s \in Sides |-> HistInit]
    /\ kind = [s \in Sides |-> "wsvc"]
    /\ head = [s \in Sides |-> EmptyHead]
    /\ records = [s \in Sides |-> {}]
    /\ trees = [s \in Sides |-> {}]
    /\ objects = [s \in Sides |-> NoFiles]
    /\ \E f \in StoredFiles, w \in Decoders, t \in Targets :
          fin = [mode |-> "decode", which |-> w, stored |-> f, offset |-> 0,
                 hb |-> <<0, 0, 0, 0>>, out |-> <<>>, target |-> t, before |-> t,
                 end |-> "run"]

DecodeNext ==
    \/ DecodeChunk
    \/ DecodeEnd

SpecDecode == DecodeInit /\ [][DecodeNext]_vars

\* the file f has, at offset off or at the start of a later chunk, a
\* chunk with no header of 4 bytes, with other magic bytes, or with a
\* declared length above the bytes that remain
RECURSIVE BadChunkFrom(_, _)
BadChunkFrom(f, off) ==
    /\ off < Len(f)
    /\ \/ off + 4 > Len(f)
       \/ f[off + 1] # 120 \/ f[off + 2] # 218
       \/ off + 4 + f[off + 3] * 256 + f[off + 4] > Len(f)
       \/ BadChunkFrom(f, off + 4 + f[off + 3] * 256 + f[off + 4])

\* C33: decoding a stored file that has a chunk whose first two bytes are
\* not 0x78 0xDA, or whose declared length, whatever it is, is above the
\* bytes that remain, ends with DecompressFailed, never with a panic and
\* never with success, and the workspace file is as it was.
C33_DecoderRejection ==
    (fin.end # "run" /\ BadChunkFrom(fin.stored, 0)) =>
        /\ fin.end = "DecompressFailed"
        /\ fin.target = fin.before

\* the same for the files whose last declared length read fits the
\* buffer
C33_WithinBuffer ==
    (fin.end # "run" /\ BadChunkFrom(fin.stored, 0) /\ SliceOk(fin.hb[3] * 256 + fin.hb[4])) =>
        /\ fin.end = "DecompressFailed"
        /\ fin.target = fin.before

---------------------------------------------------------------------------
(* sync in a bare repository.  `new <name> --bare` makes <name> itself the *)
(* root of the store; sync run in that directory opens it with try_open    *)
(* and, after sync_impl, checks the latest record out into the current     *)
(* directory, which is the root of the store.  commit and checkout refuse  *)
(* a workspace that is the root (BadUsage); sync has no such test.         *)

\* the names of the entries of the root of a store
RootEntries == {"objects", "trees", "records", "HEAD", "LOCK", "temp"}

\* the entries of the root that checkout_tree leaves in should_be_del:
\* those that are no entry of the tree (an entry of a tree of the model
\* has a name of one character)
LeftToDelete(tree) == RootEntries

\* cli sync, after sync_impl, in a bare repository: get_latest_record,
\* then checkout_record with the root of the store as workspace.
\* checkout_tree reads the trees and checks the blobs out, then removes
\* every entry of the directory the tree does not have, objects/, trees/,
\* records/, HEAD, LOCK and temp/ among them; checkout_record then writes
\* HEAD anew and removes temp/.
ILatestBare ==
    /\ pc["I"] = "latest"
    /\ \E rs \in Listings("I") :
       LET r == LatestOf(rs)
           gone == IF r = None THEN {} ELSE LeftToDelete(RecordOf(r).root)
       IN  IF r # None /\ CanCheckout("I", r)
           THEN /\ objects' = [objects EXCEPT !["I"] = IF "objects" \in gone THEN NoFiles ELSE @]
                /\ trees' = [trees EXCEPT !["I"] = IF "trees" \in gone THEN {} ELSE @]
                /\ records' = [records EXCEPT !["I"] = IF "records" \in gone THEN {} ELSE @]
                /\ head' = [head EXCEPT !["I"] = r]
                /\ temp' = [temp EXCEPT !["I"] = NoFiles]
                /\ EndAs("I", "done")
           ELSE /\ EndAs("I", "failed")
                /\ UNCHANGED <<head, temp, objects, trees, records>>
    /\ UNCHANGED <<chan, rx, fin, loc, kind>>

\* The Initiator is this program, in a bare repository that holds nothing
\* or one commit; the Responder holds any of the commits r1 and r4.
BareInit ==
    /\ SyncInit
    /\ kind["I"] = "wsvc"
    /\ records["I"] \in {{}, {"r1"}}
    /\ records["R"] \in {{}, {"r1"}, {"r4"}, {"r1", "r4"}}
    /\ \A s \in Sides : \A n \in Files(objects[s]) : ChecksumOk(n, objects[s][n])

BareNext ==
    \/ \E s \in Sides : CheckLock(s)
    \/ \E s \in Sides : Lock(s)
    \/ RSendRecords
    \/ IDiff1
    \/ RDiff1
    \/ IDiff2
    \/ RDiff2
    \/ IDiff3
    \/ RDiff3
    \/ \E s \in Sides : RecvData(s)
    \/ \E s \in Sides : RecvFile(s)
    \/ \E s \in Sides : RecvNext(s)
    \/ \E s \in Sides : SendNext(s)
    \/ \E s \in Sides : MoveNext(s)
    \/ \E s \in Sides : WriteTreeNext(s)
    \/ \E s \in Sides : WriteRecordNext(s)
    \/ ILatestBare
    \/ Drop
    \/ \E s \in Sides : FsFail(s)

SpecBare == BareInit /\ [][BareNext]_vars

\* every file of objects/, trees/ and records/ of a side that runs this
\* program is still there after the step
Grows ==
    \A s \in Sides : kind[s] = "wsvc" =>
        /\ Files(objects[s]) \subseteq Files(objects'[s])
        /\ trees[s] \subseteq trees'[s]
        /\ records[s] \subseteq records'[s]

\* C34: no step of a create, commit, checkout, clone or sync operation,
\* whether the operation succeeds or fails, removes a file from objects/,
\* trees/ or records/.
C34_AppendOnly == [][Grows]_vars

\* HEAD of side s is empty or names a record of records/.  In the model
\* of sync and of the sessions HEAD holds None or the name of a record;
\* in the model of commit and checkout it holds <<>> or <<r>>.
HeadValid(s) ==
    IF fin.mode \in {"work", "cli"}
    THEN head[s] = EmptyHead \/ head[s][1] \in records[s]
    ELSE head[s] = None \/ head[s] \in records[s]

\* C35: in every state, also in the middle of an operation and after an
\* operation that failed, HEAD of a repository is empty or holds the
\* fingerprint of a record that is in records/.
C35_HeadValid == \A s \in Sides : kind[s] = "wsvc" => HeadValid(s)

---------------------------------------------------------------------------
(* Checkout from a store that lost something.  The store holds two         *)
(* commits; then a file of objects/, trees/ or records/ was lost, or a     *)
(* file of objects/ was damaged.                                           *)

\* the store f after commit_record of the workspace w at the date given
CommitInto(f, w, date) ==
    LET tree == BuildTree(46, w)
        record == NewRecord("m", "ann", date, tree)
    IN  [objects |-> BlobFiles(w) @@ f.objects,
         trees |-> StoreTreeFile(tree, f.trees).present,
         records |-> f.records \cup {record},
         head |-> HeadOf(record)]

\* the stores with one file lost or damaged
Faulty(f) ==
    {[f EXCEPT !.objects = Without(@, n)] : n \in Files(f.objects)}
    \cup {[f EXCEPT !.objects = [x \in Files(f.objects) |->
                                    IF x = n THEN <<0>> \o Tail(f.objects[n])
                                    ELSE f.objects[x]]] :
             n \in {x \in Files(f.objects) : f.objects[x] # <<>>}}
    \cup {[f EXCEPT !.trees = @ \ {t}] : t \in f.trees}
    \cup {[f EXCEPT !.records = @ \ {r}] : r \in f.records \ {f.head[1]}}

FaultInit ==
    /\ chan = [s \in Sides |-> <<>>]
    /\ open = TRUE
    /\ pc = [s \in Sides |-> "idle"]
    /\ rx = [s \in Sides |-> RxIdle]
    /\ temp = [s \in Sides |-> NoFiles]
    /\ lockFile = [s \in Sides |-> None]
    /\ loc = [s \in Sides |-> LocInit]
    /\ hist = [s \in Sides |-> HistInit]
    /\ kind = [s \in Sides |-> "wsvc"]
    /\ \E w1, w2 \in WorkDirs :
          /\ w1 # w2
          /\ LET whole == CommitInto(CommitInto(EmptyStore, w1, 1), w2, 2)
             IN  \E f \in Faulty(whole) :
                    /\ objects = [s \in Sides |-> IF s = "R" THEN f.objects ELSE NoFiles]
                    /\ trees = [s \in Sides |-> IF s = "R" THEN f.trees ELSE {}]
                    /\ records = [s \in Sides |-> IF s = "R" THEN f.records ELSE {}]
                    /\ head = [s \in Sides |-> IF s = "R" THEN f.head ELSE EmptyHead]
                    /\ fin = [mode |-> "work", ws |-> w2, base |-> 46, now |-> 3,
                              log |-> <<>>, last |-> Idle, known |-> whole.records]

\* checkout_record of a record whose file is lost: read_record fails
CheckoutLost(r) ==
    /\ r \in fin.known \ records["R"]
    /\ fin' = [fin EXCEPT !.last = LastOf("checkout", FALSE, HeadOf(r), 0, "", "", FALSE)]
    /\ UNCHANGED <<temp, storeVars, notWork>>

FaultNext ==
    \/ \E r \in records["R"] : WorkCheckout(r)
    \/ \E r \in fin.known : CheckoutLost(r)
    \/ \E w \in WorkDirs : WorkEdit(w)

SpecFault == FaultInit /\ [][FaultNext]_vars

\* a step that ends as a failed checkout_record
FailedCheckoutStep == fin'.last.op = "checkout" /\ ~fin'.last.ok

\* C36: a checkout_record that fails, because the record, a tree or a
\* blob is missing, because a blob does not decode, or because a step on
\* the workspace fails, leaves HEAD as it was.
C36_FailedCheckoutKeepsHead ==
    [][FailedCheckoutStep => head' = head]_vars

\* a checkout of a record other than HEAD's failed after it had already
\* changed the workspace
C36_Witness ==
    /\ fin.mode = "work"
    /\ fin.last.op = "checkout" /\ ~fin.last.ok
    /\ fin.last.rec # head["R"]
    /\ fin.ws # fin.last.before

---------------------------------------------------------------------------
(* Guards taken through clones of one Repository value.  Repository is     *)
(* Clone and the clone carries the same lock string (the nanoid drawn by   *)
(* new / open); a program that serves several sessions from one            *)
(* Repository, as a caller of sync_with may, makes a guard for each.       *)
(* fin.ses[id].lock is the lock string of the Repository the session id    *)
(* works with.                                                             *)

LockStrings == {"n1"}

LockOf(id) == fin.ses[id].lock

\* RepoGuard::new, first half: repo.check_lock()
CloneCheckLock(id) ==
    /\ fin.ses[id].op = "guarded"
    /\ SesAt(id, "start")
    /\ SesGoto(id, IF CheckLockOk(lockFile["R"], LockOf(id)) THEN "locking"
                   ELSE "locked_out")
    /\ UNCHANGED <<lockFile, temp, storeVars, notRepo>>

\* RepoGuard::new, second half: repo.lock() writes the lock string
CloneLock(id) ==
    /\ SesAt(id, "locking")
    /\ lockFile' = [lockFile EXCEPT !["R"] = LockOf(id)]
    /\ SesGoto(id, "in")
    /\ UNCHANGED <<temp, storeVars, notRepo>>

\* impl Drop for RepoGuard: unlock() removes LOCK; remove_file fails when
\* the file is not there and .ok() drops the error
CloneDrop(id) ==
    /\ SesHolds(id)
    /\ lockFile' = [lockFile EXCEPT !["R"] = None]
    /\ SesGoto(id, "done")
    /\ UNCHANGED <<temp, storeVars, notRepo>>

CloneInit ==
    /\ chan = [s \in Sides |-> <<>>]
    /\ open = TRUE
    /\ pc = [s \in Sides |-> "idle"]
    /\ rx = [s \in Sides |-> RxIdle]
    /\ temp = [s \in Sides |-> NoFiles]
    /\ lockFile = [s \in Sides |-> None]
    /\ loc = [s \in Sides |-> LocInit]
    /\ hist = [s \in Sides |-> HistInit]
    /\ kind = [s \in Sides |-> "wsvc"]
    /\ head = [s \in Sides |-> None]
    /\ \E rr \in SUBSET RecordIds :
          /\ records = [s \in Sides |-> IF s = "R" THEN rr ELSE {}]
          /\ trees = [s \in Sides |-> IF s = "R" THEN TreesOfSet(rr) ELSE {}]
          /\ objects = [s \in Sides |->
                          IF s = "R" THEN ObjectsOf(BlobsOfSet(TreesOfSet(rr)))
                          ELSE NoFiles]
    /\ \E n \in LockStrings :
          fin = [mode |-> "lock", last |-> None,
                 ses |-> [id \in Sessions |->
                             [op |-> "guarded", at |-> "start", lock |-> n]]]

CloneNext ==
    \E id \in Sessions :
        \/ CloneCheckLock(id)
        \/ CloneLock(id)
        \/ SesPromote(id)
        \/ CloneDrop(id)

SpecClones == CloneInit /\ [][CloneNext]_vars

\* C37: while a RepoGuard is alive the LOCK file holds its lock string,
\* also when another guard with the same lock string is made and dropped
\* in the meantime.
C37_GuardImpliesLock ==
    \A id \in Sessions : SesHolds(id) => lockFile["R"] = LockOf(id)

\* what does hold: while a single guard is alive, or while the guards
\* alive were all made and none of them dropped, LOCK holds the string
C37_UntilFirstDrop ==
    (\E id \in Sessions : SesHolds(id))
    /\ (\A id \in Sessions : ~SesAt(id, "done"))
        => lockFile["R"] \in LockStrings

---------------------------------------------------------------------------
(* A blob listed twice among the blobs a side is to receive                *)

\* the entry k of the list q names a blob an earlier entry names
Repeats(q, k) == \E j \in 1..(k - 1) : q[j].hash = q[k].hash

\* the moving loop of sync_blobs ended the session at an entry whose file
\* an earlier entry of the list had moved to objects/
FailedAtRepeat(s) ==
    /\ pc[s] = "failed" /\ hist[s].at = "move"
    /\ loc[s].i < Len(Incoming(s))
    /\ Repeats(Incoming(s), loc[s].i + 1)
    /\ FpHex(Incoming(s)[loc[s].i + 1].hash) \notin Files(temp[s])
    /\ FpHex(Incoming(s)[loc[s].i + 1].hash) \in Files(objects[s])

\* C38: when the list of the blobs a side is to receive names a blob more
\* than once, the moving loop does not end the session at the second
\* entry because the first has moved the file.
C38_DuplicatesMove == \A s \in Sides : kind[s] = "wsvc" => ~FailedAtRepeat(s)

---------------------------------------------------------------------------
(* One sync session between two wsvc programs on a connection that stays   *)
(* up until a side closes it, with no failing rename or write.  Each side  *)
(* is a task of the async runtime: a side that can take a step takes it.   *)

QuietInit ==
    /\ SyncInit
    /\ \A s \in Sides : kind[s] = "wsvc"

QuietNext ==
    \/ \E s \in Sides : CheckLock(s)
    \/ \E s \in Sides : Lock(s)
    \/ RSendRecords
    \/ IDiff1
    \/ RDiff1
    \/ IDiff2
    \/ RDiff2
    \/ IDiff3
    \/ RDiff3
    \/ \E s \in Sides : RecvData(s)
    \/ \E s \in Sides : RecvFile(s)
    \/ \E s \in Sides : RecvNext(s)
    \/ \E s \in Sides : SendNext(s)
    \/ \E s \in Sides : MoveNext(s)
    \/ \E s \in Sides : WriteTreeNext(s)
    \/ \E s \in Sides : WriteRecordNext(s)
    \/ ILatest

SpecQuiet == QuietInit /\ [][QuietNext]_vars

\* the pairs of stores over which the temporal formulas are checked
FairInit ==
    /\ QuietInit
    /\ records["I"] \in {{}, {"r1"}, {"r2"}}
    /\ records["R"] \in {{}, {"r1"}}
    /\ \A s \in Sides : Files(objects[s]) = {FpHex(b) : b \in BlobsOfSet(trees[s])}

SpecQuietFair == FairInit /\ [][QuietNext]_vars /\ WF_vars(QuietNext)

\* sync_with, or sync_impl, has returned Ok: the Responder is done, the
\* Initiator has gone on to get_latest_record
SessionOk(s) ==
    IF s = "R" THEN pc[s] = "done"
    ELSE pc[s] \in {"latest", "done"} \/ (pc[s] \in Ended /\ hist[s].at = "latest")

\* both sides took the lock: neither was turned away by a LOCK file
BothIn == \A s \in Sides : hist[s].locked

\* C39: a sync session between two well-formed stores, on a connection
\* that delivers every message and with no filesystem error, comes to an
\* end with success on both sides.
C39_SyncSucceeds == <>(\A s \in Sides : SessionOk(s))

\* what does hold: every such session comes to an end on both sides
C39_BothReturn == <>(\A s \in Sides : pc[s] \in Ended)

\* and it ends with success on both sides when no blob is to be sent
C39_NoBlobNoFailure ==
    (\A s \in Sides : pc[s] \in Ended /\ Outgoing(s) = <<>> /\ Incoming(s) = <<>>
                      /\ Pos(s) \in Round4Pcs \cup {"done"})
        => \A s \in Sides : SessionOk(s)

\* C39, the part of it that a single state refutes: a session that has
\* come to an end has ended with success
C39_NoFailure == \A s \in Sides : pc[s] \in Ended => SessionOk(s)

====
